---- MODULE Spec2Model ----
(***************************************************************************)
(* The streaming feed-normalization engine of ericpp/feedparser: the       *)
(* parse loop of process_feed_sync (src/src/main.rs), the dispatch table   *)
(* (src/src/tags/mod.rs), the tag handlers (src/src/tags/*.rs), the        *)
(* record writers (src/src/outputs.rs) and the helpers of src/src/utils.rs.*)
(*                                                                         *)
(* A string is a sequence of characters (one-character TLA+ strings), so   *)
(* that trim, starts_with, push_str, truncation and the concatenation of   *)
(* bytes fed to a digest are computed and not assumed.  An Option<T> is a  *)
(* sequence of length 0 (None) or 1 (Some).  The MD5 digest is symbolic:   *)
(* Md5Hex(bytes) is injective in the byte string it was fed.               *)
(*                                                                         *)
(* The event source (the XML tokenizer, external to the engine) is the     *)
(* stack of open elements: it yields well-nested start / text / end events *)
(* of RSS 2.0, RSS 1.0 (items beside the channel) and Atom shaped          *)
(* documents, or a terminal Error.                                         *)
(***************************************************************************)
EXTENDS Integers, Sequences, FiniteSets, TLC

VARIABLES
    state,      \* ParserState (src/src/parser_state.rs)
    records,    \* the records handed to the sink, in emission order
    feed_id,    \* Option<i64>: the feed_id argument of process_feed_sync
    pc,         \* position of the parse loop: "parsing", "stopped", "done",
                \* "panicked"
    stack,      \* event source: the open elements, innermost last
    nev,        \* event source: how many more start / text events it may yield
    ghost,      \* history of the document, read only by the properties
    GLOBAL_COUNTER,  \* the process-wide output counter (src/src/main.rs 20)
    tasks       \* the blocking tasks of process_feed, one for each feed that
                \* is processed concurrently; the specifications of one feed
                \* have none and leave the counter to the sink

vars == <<state, records, feed_id, pc, stack, nev, ghost, GLOBAL_COUNTER, tasks>>

----------------------------------------------------------------------------
(* Strings                                                                 *)

SP == " "
EMPTY == <<>>
None == <<>>
Some(x) == <<x>>

WhiteSpace == {SP}

RECURSIVE TrimStart(_)
TrimStart(s) ==
    IF s = <<>> THEN <<>>
    ELSE IF Head(s) \in WhiteSpace THEN TrimStart(Tail(s)) ELSE s

RECURSIVE TrimEnd(_)
TrimEnd(s) ==
    IF s = <<>> THEN <<>>
    ELSE IF s[Len(s)] \in WhiteSpace THEN TrimEnd(SubSeq(s, 1, Len(s) - 1)) ELSE s

\* str::trim
Trim(s) == TrimEnd(TrimStart(s))

\* str::starts_with
StartsWith(s, p) == Len(s) >= Len(p) /\ SubSeq(s, 1, Len(p)) = p

\* s.chars().take(n)
Take(s, n) == IF Len(s) <= n THEN s ELSE SubSeq(s, 1, n)

\* a run of n copies of the character c
Rep(c, n) == [i \in 1..n |-> c]

Min(a, b) == IF a <= b THEN a ELSE b

RECURSIVE Flatten(_)
Flatten(parts) == IF parts = <<>> THEN <<>> ELSE Head(parts) \o Flatten(Tail(parts))

UpperChars == <<"A","B","C","D","E","F","G","H","I","J","K","L","M",
                "N","O","P","Q","R","S","T","U","V","W","X","Y","Z">>
LowerChars == <<"a","b","c","d","e","f","g","h","i","j","k","l","m",
                "n","o","p","q","r","s","t","u","v","w","x","y","z">>

\* str::to_ascii_lowercase
to_ascii_lowercase(s) ==
    [i \in 1..Len(s) |->
        IF \E k \in 1..26 : UpperChars[k] = s[i]
        THEN LowerChars[CHOOSE k \in 1..26 : UpperChars[k] = s[i]]
        ELSE s[i]]

Http == <<"h", "t", "t", "p", ":", "/", "/">>
Https == <<"h", "t", "t", "p", "s", ":", "/", "/">>
Ftp == <<"f", "t", "p", ":", "/", "/">>

Digits == {"0", "1", "2", "3", "4", "5", "6", "7", "8", "9"}
DigitVal(c) ==
    CASE c = "0" -> 0 [] c = "1" -> 1 [] c = "2" -> 2 [] c = "3" -> 3 [] c = "4" -> 4
      [] c = "5" -> 5 [] c = "6" -> 6 [] c = "7" -> 7 [] c = "8" -> 8 [] c = "9" -> 9

RECURSIVE StripZeros(_)
StripZeros(d) == IF Len(d) > 1 /\ Head(d) = "0" THEN StripZeros(Tail(d)) ELSE d

\* a <= b for canonical decimal digit strings (no leading zeros)
RECURSIVE DecLeq(_, _)
DecLeq(a, b) ==
    IF Len(a) # Len(b) THEN Len(a) < Len(b)
    ELSE IF a = <<>> THEN TRUE
    ELSE IF Head(a) # Head(b) THEN DigitVal(Head(a)) < DigitVal(Head(b))
    ELSE DecLeq(Tail(a), Tail(b))

I64MaxDigits == <<"9","2","2","3","3","7","2","0","3","6","8","5","4","7","7","5","8","0","7">>
I64MinDigits == <<"9","2","2","3","3","7","2","0","3","6","8","5","4","7","7","5","8","0","8">>

\* str::parse::<i64>().ok(): an optional sign, then one or more digits, in range.
\* The parsed number is kept as [neg, digits] with canonical digits, which is the
\* decimal form serde_json prints for it.
ParseI64(s) ==
    LET neg == s # <<>> /\ Head(s) = "-"
        body == IF s # <<>> /\ Head(s) \in {"-", "+"} THEN Tail(s) ELSE s
    IN  IF body = <<>> \/ \E i \in 1..Len(body) : body[i] \notin Digits THEN None
        ELSE LET d == StripZeros(body)
             IN  IF d = <<"0">> THEN Some([neg |-> FALSE, digits |-> d])
                 ELSE IF neg THEN (IF DecLeq(d, I64MinDigits) THEN Some([neg |-> TRUE, digits |-> d]) ELSE None)
                 ELSE (IF DecLeq(d, I64MaxDigits) THEN Some([neg |-> FALSE, digits |-> d]) ELSE None)

\* str::contains
Contains(s, sub) ==
    \E i \in 1..(Len(s) - Len(sub) + 1) : SubSeq(s, i, i + Len(sub) - 1) = sub

\* utils::truncate_str: trim, then the first max_len characters
truncate_str(s, max_len) == Take(Trim(s), max_len)

\* md5::Context: the bytes consumed so far; consume appends
Md5New == <<>>
Md5Consume(ctx, bytes) == ctx \o bytes
\* format!("{:x}", ctx.compute()): symbolic, injective in the bytes consumed
Md5Hex(ctx) == [md5 |-> ctx]

----------------------------------------------------------------------------
(* MIME types named by guess_enclosure_type                                *)

VideoMp4 == <<"v","i","d","e","o","/","m","p","4">>
VideoAvi == <<"v","i","d","e","o","/","a","v","i">>
VideoQuicktime == <<"v","i","d","e","o","/","q","u","i","c","k","t","i","m","e">>
AudioMpeg == <<"a","u","d","i","o","/","m","p","e","g">>
AudioMp4 == <<"a","u","d","i","o","/","m","p","4">>
AudioWav == <<"a","u","d","i","o","/","w","a","v">>
AudioOgg == <<"a","u","d","i","o","/","o","g","g">>
VideoWmv == <<"v","i","d","e","o","/","x","-","m","s","-","w","m","v">>

\* mutation of guess_enclosure_type: audio/mpeg when no extension is found
guess_enclosure_type_or_mpeg(url) ==
    IF Contains(url, <<".","m","4","v">>) THEN VideoMp4
    ELSE IF Contains(url, <<".","m","p","4">>) THEN VideoMp4
    ELSE IF Contains(url, <<".","a","v","i">>) THEN VideoAvi
    ELSE IF Contains(url, <<".","m","o","v">>) THEN VideoQuicktime
    ELSE IF Contains(url, <<".","m","p","3">>) THEN AudioMpeg
    ELSE IF Contains(url, <<".","m","4","a">>) THEN AudioMp4
    ELSE IF Contains(url, <<".","w","a","v">>) THEN AudioWav
    ELSE IF Contains(url, <<".","o","g","g">>) THEN AudioOgg
    ELSE IF Contains(url, <<".","w","m","v">>) THEN VideoWmv
    ELSE AudioMpeg

guess_enclosure_type(url) ==
    IF Contains(url, <<".","m","4","v">>) THEN VideoMp4
    ELSE IF Contains(url, <<".","m","p","4">>) THEN VideoMp4
    ELSE IF Contains(url, <<".","a","v","i">>) THEN VideoAvi
    ELSE IF Contains(url, <<".","m","o","v">>) THEN VideoQuicktime
    ELSE IF Contains(url, <<".","m","p","3">>) THEN AudioMpeg
    ELSE IF Contains(url, <<".","m","4","a">>) THEN AudioMp4
    ELSE IF Contains(url, <<".","w","a","v">>) THEN AudioWav
    ELSE IF Contains(url, <<".","o","g","g">>) THEN AudioOgg
    ELSE IF Contains(url, <<".","w","m","v">>) THEN VideoWmv
    ELSE EMPTY

----------------------------------------------------------------------------
(* ParserState                                                             *)

\* ParserState::default()
ParserStateDefault == [
    current_element |-> "",
    feed_type |-> 0,
    in_channel |-> FALSE,
    channel_title |-> EMPTY,
    channel_link |-> EMPTY,
    channel_description |-> EMPTY,
    channel_itunes_summary |-> EMPTY,
    channel_language |-> EMPTY,
    channel_generator |-> EMPTY,
    channel_itunes_author |-> EMPTY,
    in_itunes_author |-> FALSE,
    channel_itunes_owner_name |-> EMPTY,
    channel_itunes_owner_email |-> EMPTY,
    in_channel_itunes_owner |-> FALSE,
    channel_podcast_locked |-> 0,
    channel_podcast_owner |-> EMPTY,
    channel_podcast_guid |-> EMPTY,
    channel_podcast_funding_url |-> EMPTY,
    channel_podcast_funding_text |-> EMPTY,
    pubsub_hub_url |-> EMPTY,
    pubsub_self_url |-> EMPTY,
    channel_categories_raw |-> <<>>,
    in_standard_category |-> FALSE,
    channel_value_pending |-> None,
    channel_value_has_lightning |-> FALSE,
    in_item |-> FALSE,
    in_podcast_alternate_enclosure |-> FALSE,
    item_written |-> FALSE,
    title |-> EMPTY,
    itunes_title |-> EMPTY,
    link |-> EMPTY,
    description |-> EMPTY,
    itunes_summary |-> EMPTY,
    content_encoded |-> EMPTY,
    content |-> EMPTY,
    guid |-> EMPTY,
    itunes_duration |-> EMPTY,
    item_has_valid_enclosure |-> FALSE,
    enclosure_url |-> EMPTY,
    enclosure_length |-> EMPTY,
    enclosure_type |-> EMPTY,
    in_podcast_funding |-> FALSE,
    podcast_funding_url |-> EMPTY,
    podcast_funding_text |-> EMPTY,
    in_podcast_transcript |-> FALSE,
    current_transcript_url |-> EMPTY,
    current_transcript_type |-> EMPTY,
    in_podcast_chapters |-> FALSE,
    current_chapter_url |-> EMPTY,
    current_chapter_type |-> EMPTY,
    in_podcast_soundbite |-> FALSE,
    current_soundbite_title |-> EMPTY,
    current_soundbite_start |-> EMPTY,
    current_soundbite_duration |-> EMPTY,
    in_podcast_person |-> FALSE,
    current_person_name |-> EMPTY,
    current_person_role |-> EMPTY,
    current_person_group |-> EMPTY,
    current_person_img |-> EMPTY,
    current_person_href |-> EMPTY,
    item_value_pending |-> None,
    item_value_has_lightning |-> FALSE,
    in_podcast_value |-> FALSE,
    value_recipients |-> <<>>,
    value_model_type |-> EMPTY,
    value_model_method |-> EMPTY,
    value_model_suggested |-> EMPTY,
    pub_date |-> EMPTY,
    channel_pub_date |-> EMPTY,
    item_pubdates |-> <<>>,
    item_count |-> 0,
    newest_item_pubdate |-> None,
    oldest_item_pubdate |-> None,
    item_hash |-> Md5New ]

\* what a handler returns: the new ParserState and the records it wrote
Ret(s, w) == [st |-> s, out |-> w]

\* match feed_id { Some(v) => JsonValue::from(v), None => JsonValue::Null }
FeedIdJson(fid) == fid
\* feed_id.unwrap_or(0)
FeedIdOrZero(fid) == IF fid = None THEN 0 ELSE fid[1]

----------------------------------------------------------------------------
(* Durations (utils::parse_itunes_duration, utils::time_to_seconds)        *)

RECURSIVE DigitsToInt(_)
DigitsToInt(d) == IF d = <<>> THEN 0 ELSE DigitsToInt(SubSeq(d, 1, Len(d) - 1)) * 10 + DigitVal(d[Len(d)])

I32Max == 2147483647

\* str::parse::<i32>().ok(): None, or Some of the integer
ParseI32(s) ==
    LET p == ParseI64(s)
    IN  IF p = None THEN None
        ELSE IF p[1].neg
        THEN (IF p[1].digits = <<"2","1","4","7","4","8","3","6","4","8">> THEN Some(-I32Max - 1)
              ELSE IF DecLeq(p[1].digits, <<"2","1","4","7","4","8","3","6","4","7">>)
                   THEN Some(-DigitsToInt(p[1].digits)) ELSE None)
        ELSE (IF DecLeq(p[1].digits, <<"2","1","4","7","4","8","3","6","4","7">>)
              THEN Some(DigitsToInt(p[1].digits)) ELSE None)

\* unwrap_or
UnwrapOr(opt, dflt) == IF opt = None THEN dflt ELSE opt[1]

\* utils::truncate_int: number.clamp(-2147483647, 2147483647)
truncate_int(number) ==
    IF number < -I32Max THEN -I32Max ELSE IF number > I32Max THEN I32Max ELSE number

\* str::split(':'): the parts between the colons (one part when there is none)
RECURSIVE SplitColon(_)
SplitColon(s) ==
    IF \A i \in 1..Len(s) : s[i] # ":" THEN <<s>>
    ELSE LET k == CHOOSE i \in 1..Len(s) : s[i] = ":" /\ \A j \in 1..(i - 1) : s[j] # ":"
         IN  <<SubSeq(s, 1, k - 1)>> \o SplitColon(SubSeq(s, k + 1, Len(s)))

\* the value of time_to_seconds for a text without exactly one or two colons
\* that is no integer
DefaultSeconds == 30 * 60

I32Min == -I32Max - 1

\* i32 `a + b` leaves the range of i32
add_overflows(a, b) == (b > 0 /\ a > I32Max - b) \/ (b < 0 /\ a < I32Min - b)

\* i32 `a * k` for a literal k > 0 leaves the range of i32
mul_overflows(a, k) == a > I32Max \div k \/ a < (I32Min + k - 1) \div k

\* i32 `a + b` where overflow is not checked: the sum modulo 2^32
wrapping_add(a, b) ==
    IF b > 0 /\ a > I32Max - b THEN (a - I32Max - 1) + (b - I32Max - 1)
    ELSE IF b < 0 /\ a < I32Min - b THEN (a + I32Max + 1) + (b + I32Max + 1)
    ELSE a + b

\* i32 `a * k` for a literal k in 1..2^15 where overflow is not checked: the
\* product modulo 2^32, from the two 16-bit halves of a
wrapping_mul(a, k) ==
    LET word == 2^16
        low == a % word
        high == (((a - low) \div word) * k) % word
    IN  wrapping_add((IF 2 * high >= word THEN high - word ELSE high) * word, low * k)

\* utils::time_to_seconds, the value it returns; where its arithmetic
\* overflows that is the value of a build without overflow checks
time_to_seconds(time_string) ==
    LET parts == SplitColon(time_string)
    IN  CASE Len(parts) - 1 = 1 ->
                wrapping_add(wrapping_mul(UnwrapOr(ParseI32(parts[1]), 0), 60),
                             UnwrapOr(ParseI32(parts[2]), 0))
          [] Len(parts) - 1 = 2 ->
                wrapping_add(
                    wrapping_add(wrapping_mul(UnwrapOr(ParseI32(parts[1]), 0), 3600),
                                 wrapping_mul(UnwrapOr(ParseI32(parts[2]), 0), 60)),
                    UnwrapOr(ParseI32(parts[3]), 0))
          [] OTHER -> UnwrapOr(ParseI32(time_string), DefaultSeconds)

\* utils::time_to_seconds: an operation of `minutes * 60 + seconds` or of
\* `hours * 3600 + minutes * 60 + seconds` overflows; a build with overflow
\* checks panics there instead of returning
time_to_seconds_overflows(time_string) ==
    LET parts == SplitColon(time_string)
        part(k) == UnwrapOr(ParseI32(parts[k]), 0)
    IN  CASE Len(parts) - 1 = 1 ->
                \/ mul_overflows(part(1), 60)
                \/ add_overflows(part(1) * 60, part(2))
          [] Len(parts) - 1 = 2 ->
                \/ mul_overflows(part(1), 3600)
                \/ mul_overflows(part(2), 60)
                \/ add_overflows(part(1) * 3600, part(2) * 60)
                \/ add_overflows(part(1) * 3600 + part(2) * 60, part(3))
          [] OTHER -> FALSE

\* utils::parse_itunes_duration
parse_itunes_duration(raw) ==
    IF ParseI32(raw) # None THEN truncate_int(ParseI32(raw)[1]) ELSE time_to_seconds(raw)

\* utils::parse_itunes_duration panics in a build with overflow checks
parse_itunes_duration_overflows(raw) ==
    ParseI32(raw) = None /\ time_to_seconds_overflows(raw)

----------------------------------------------------------------------------
(* Update frequency (utils::calculate_update_frequency)                    *)

DaySeconds == 24 * 60 * 60

\* pubdates.iter().filter(|&&time| time > bound).count()
CountNewer(pubdates, bound) == Cardinality({i \in 1..Len(pubdates) : pubdates[i] > bound})

\* mutation of calculate_update_frequency: one item in a window is enough
calculate_update_frequency_one(pubdates, now) ==
    LET ago(days) == now - days * DaySeconds
    IN  IF CountNewer(pubdates, ago(400)) = 0 THEN 9
        ELSE IF CountNewer(pubdates, ago(200)) = 0 THEN 8
        ELSE IF CountNewer(pubdates, ago(100)) = 0 THEN 7
        ELSE IF CountNewer(pubdates, ago(5)) >= 1 THEN 1
        ELSE IF CountNewer(pubdates, ago(10)) >= 1 THEN 2
        ELSE IF CountNewer(pubdates, ago(20)) >= 1 THEN 3
        ELSE IF CountNewer(pubdates, ago(40)) >= 1 THEN 4
        ELSE IF CountNewer(pubdates, ago(100)) >= 1 THEN 5
        ELSE IF CountNewer(pubdates, ago(200)) >= 1 THEN 6
        ELSE IF CountNewer(pubdates, ago(400)) >= 1 THEN 7
        ELSE 0

\* utils::calculate_update_frequency; now is the system clock it reads
calculate_update_frequency(pubdates, now) ==
    LET ago(days) == now - days * DaySeconds
    IN  IF CountNewer(pubdates, ago(400)) = 0 THEN 9
        ELSE IF CountNewer(pubdates, ago(200)) = 0 THEN 8
        ELSE IF CountNewer(pubdates, ago(100)) = 0 THEN 7
        ELSE IF CountNewer(pubdates, ago(5)) > 1 THEN 1
        ELSE IF CountNewer(pubdates, ago(10)) > 1 THEN 2
        ELSE IF CountNewer(pubdates, ago(20)) > 1 THEN 3
        ELSE IF CountNewer(pubdates, ago(40)) > 1 THEN 4
        ELSE IF CountNewer(pubdates, ago(100)) > 1 THEN 5
        ELSE IF CountNewer(pubdates, ago(200)) > 1 THEN 6
        ELSE IF CountNewer(pubdates, ago(400)) >= 1 THEN 7
        ELSE 0

----------------------------------------------------------------------------
(* Record writers (src/src/outputs.rs).  Each returns the records it hands *)
(* to write_record: a sequence of length 0 or 1.                           *)

\* mutation of item_id: the ordinal of the last emitted item, not of this one
item_id_stale(s, fid) == <<FeedIdOrZero(fid), s.item_count>>

\* format!("{}_{}", feed_id.unwrap_or(0), state.item_count + 1)
item_id(s, fid) == <<FeedIdOrZero(fid), s.item_count + 1>>

\* widths of write_nfitems (outputs.rs 187, 190)
EnclosureUrlWidth == 738
GuidWidth == 740

\* outputs.rs 61-65
final_description(s) ==
    IF Trim(s.channel_itunes_summary) # EMPTY THEN Trim(s.channel_itunes_summary)
    ELSE Trim(s.channel_description)

\* outputs.rs 67-71
final_owner(s) ==
    LET owner == Trim(s.channel_podcast_owner)
    IN  Trim(IF owner = EMPTY /\ s.channel_podcast_locked = 1
             THEN Trim(s.channel_itunes_owner_email) ELSE owner)

\* utils::md5_hex_from_parts: every part is trimmed and consumed, in order,
\* with nothing between the parts
md5_hex_from_parts(parts) ==
    Md5Hex(Flatten([i \in 1..Len(parts) |-> Trim(parts[i])]))

\* mutation of chash_parts: the description is hashed as an eighth part
chash_parts_with_description(s) ==
    << Trim(s.channel_title), Trim(s.channel_link), Trim(s.channel_language),
       Trim(s.channel_generator), Trim(s.channel_itunes_author),
       Trim(s.channel_itunes_owner_name), Trim(s.channel_itunes_owner_email),
       s.channel_description >>

\* outputs.rs 76-84: the parts of the channel hash
chash_parts(s) ==
    << Trim(s.channel_title), Trim(s.channel_link), Trim(s.channel_language),
       Trim(s.channel_generator), Trim(s.channel_itunes_author),
       Trim(s.channel_itunes_owner_name), Trim(s.channel_itunes_owner_email) >>

\* mutation of write_newsfeeds: a channel without items writes no record
write_newsfeeds_unless_empty(s, fid) ==
    IF s.item_count = 0 THEN <<>>
    ELSE << [table |-> "newsfeeds",
             id |-> FeedIdJson(fid),
             url |-> Trim(s.channel_link),
             item_count |-> s.item_count,
             podcast_chapters |-> Md5Hex(s.item_hash)] >>

write_newsfeeds(s, fid) ==
    << [table |-> "newsfeeds",
        id |-> FeedIdJson(fid),
        title |-> Trim(s.channel_title),
        url |-> Trim(s.channel_link),
        content |-> final_description(s),
        language |-> Trim(s.channel_language),
        generator |-> Trim(s.channel_generator),
        itunes_author |-> Trim(s.channel_itunes_author),
        itunes_owner_name |-> Trim(s.channel_itunes_owner_name),
        itunes_owner_email |-> Trim(s.channel_itunes_owner_email),
        podcast_locked |-> s.channel_podcast_locked,
        podcast_owner |-> final_owner(s),
        item_count |-> s.item_count,
        newest_item_pubdate |-> s.newest_item_pubdate,
        oldest_item_pubdate |-> s.oldest_item_pubdate,
        chash |-> md5_hex_from_parts(chash_parts(s)),
        podcast_chapters |-> Md5Hex(s.item_hash)] >>

final_title(s) == IF s.itunes_title # EMPTY THEN s.itunes_title ELSE Trim(s.title)

\* an RFC 2822 date: seven seconds after the epoch
DateSeven ==
    <<"T", "h", "u", ",", " ", "0", "1", " ", "J", "a", "n", " ", "1", "9",
    "7", "0", " ", "0", "0", ":", "0", "0", ":", "0", "7", " ", "G", "M",
    "T">>

\* utils::parse_pub_date_to_unix (not among the sources): the seconds since
\* the epoch of a text that is a date, None for any other text
parse_pub_date_to_unix(text) == IF text = DateSeven THEN Some(7) ELSE None

\* the integer of a parsed i64
I64Value(p) == IF p.neg THEN 0 - DigitsToInt(p.digits) ELSE DigitsToInt(p.digits)

\* item.rs 88-89, outputs.rs 192-198: the date, else the text as an integer,
\* else 0
pub_date_ts(s) ==
    LET date == parse_pub_date_to_unix(Trim(s.pub_date))
        number == ParseI64(Trim(s.pub_date))
    IN  IF date # None THEN date[1]
        ELSE IF number # None THEN I64Value(number[1])
        ELSE 0

\* outputs.rs 169-179: the first source that is not empty, trimmed
item_description(s) ==
    IF s.content # EMPTY THEN Trim(s.content)
    ELSE IF s.itunes_summary # EMPTY THEN Trim(s.itunes_summary)
    ELSE IF s.content_encoded # EMPTY THEN Trim(s.content_encoded)
    ELSE IF s.description # EMPTY THEN Trim(s.description)
    ELSE EMPTY

write_nfitems(s, fid) ==
    << [table |-> "nfitems",
        feedid |-> FeedIdJson(fid),
        title |-> final_title(s),
        link |-> Trim(s.link),
        description |-> item_description(s),
        timestamp |-> pub_date_ts(s),
        guid |-> truncate_str(Trim(s.guid), GuidWidth),
        itunes_duration |-> parse_itunes_duration(Trim(s.itunes_duration)),
        enclosure_url |-> truncate_str(Trim(s.enclosure_url), EnclosureUrlWidth),
        enclosure_length |-> ParseI64(Trim(s.enclosure_length)),
        enclosure_type |-> Trim(s.enclosure_type)] >>

write_nfguids(s, fid) ==
    IF Trim(s.channel_podcast_guid) = EMPTY THEN <<>>
    ELSE << [table |-> "nfguids", feedid |-> FeedIdJson(fid),
             guid |-> Trim(s.channel_podcast_guid)] >>

write_pubsub(s, fid) ==
    IF Trim(s.pubsub_hub_url) = EMPTY /\ Trim(s.pubsub_self_url) = EMPTY THEN <<>>
    ELSE << [table |-> "pubsub", feedid |-> FeedIdJson(fid),
             hub_url |-> Trim(s.pubsub_hub_url),
             self_url |-> Trim(s.pubsub_self_url)] >>

write_nffunding(s, fid) ==
    IF Trim(s.channel_podcast_funding_url) = EMPTY THEN <<>>
    ELSE << [table |-> "nffunding", feedid |-> FeedIdJson(fid),
             url |-> Trim(s.channel_podcast_funding_url),
             message |-> Trim(s.channel_podcast_funding_text)] >>

write_nfitem_transcript(s, fid) ==
    IF Trim(s.current_transcript_url) = EMPTY THEN <<>>
    ELSE << [table |-> "nfitem_transcripts", itemid |-> item_id(s, fid),
             url |-> Trim(s.current_transcript_url),
             type |-> Trim(s.current_transcript_type)] >>

write_nfitem_chapters(s, fid) ==
    IF Trim(s.current_chapter_url) = EMPTY THEN <<>>
    ELSE << [table |-> "nfitem_chapters", itemid |-> item_id(s, fid),
             url |-> Trim(s.current_chapter_url),
             type |-> Trim(s.current_chapter_type)] >>

write_nfitem_soundbites(s, fid) ==
    IF Trim(s.current_soundbite_start) = EMPTY \/ Trim(s.current_soundbite_duration) = EMPTY
    THEN <<>>
    ELSE << [table |-> "nfitem_soundbites", itemid |-> item_id(s, fid),
             title |-> Trim(s.current_soundbite_title),
             start_time |-> Trim(s.current_soundbite_start),
             duration |-> Trim(s.current_soundbite_duration)] >>

write_nfitem_persons(s, fid) ==
    IF Trim(s.current_person_name) = EMPTY THEN <<>>
    ELSE << [table |-> "nfitem_persons", itemid |-> item_id(s, fid),
             name |-> Trim(s.current_person_name),
             role |-> Trim(s.current_person_role),
             grp |-> Trim(s.current_person_group),
             img |-> Trim(s.current_person_img),
             href |-> Trim(s.current_person_href)] >>

write_nfvalue_from_block(fid, value_type, block) ==
    << [table |-> "nfvalue", feedid |-> FeedIdJson(fid),
        value_block |-> block, type |-> value_type] >>

write_nfitem_value_from_block(s, fid, value_type, block) ==
    << [table |-> "nfitem_value", itemid |-> item_id(s, fid),
        value_block |-> block, type |-> value_type] >>

----------------------------------------------------------------------------
(* Categories (src/src/tags/category.rs, utils::build_category_ids,        *)
(* outputs::write_nfcategories)                                            *)

\* the taxonomy names; the code of a name is its position, counted from 0
CATEGORY_LOOKUP ==
    << <<>>,
       <<"a","r","t","s">>,
       <<"b","o","o","k","s">>,
       <<"d","e","s","i","g","n">>,
       <<"f","a","s","h","i","o","n">>,
       <<"b","e","a","u","t","y">>,
       <<"f","o","o","d">>,
       <<"p","e","r","f","o","r","m","i","n","g">>,
       <<"v","i","s","u","a","l">>,
       <<"b","u","s","i","n","e","s","s">>,
       <<"c","a","r","e","e","r","s">>,
       <<"e","n","t","r","e","p","r","e","n","e","u","r","s","h","i","p">>,
       <<"i","n","v","e","s","t","i","n","g">>,
       <<"m","a","n","a","g","e","m","e","n","t">>,
       <<"m","a","r","k","e","t","i","n","g">>,
       <<"n","o","n","p","r","o","f","i","t">>,
       <<"c","o","m","e","d","y">>,
       <<"i","n","t","e","r","v","i","e","w","s">>,
       <<"i","m","p","r","o","v">>,
       <<"s","t","a","n","d","u","p">>,
       <<"e","d","u","c","a","t","i","o","n">>,
       <<"c","o","u","r","s","e","s">>,
       <<"h","o","w","t","o">>,
       <<"l","a","n","g","u","a","g","e">>,
       <<"l","e","a","r","n","i","n","g">>,
       <<"s","e","l","f","i","m","p","r","o","v","e","m","e","n","t">>,
       <<"f","i","c","t","i","o","n">>,
       <<"d","r","a","m","a">>,
       <<"h","i","s","t","o","r","y">>,
       <<"h","e","a","l","t","h">>,
       <<"f","i","t","n","e","s","s">>,
       <<"a","l","t","e","r","n","a","t","i","v","e">>,
       <<"m","e","d","i","c","i","n","e">>,
       <<"m","e","n","t","a","l">>,
       <<"n","u","t","r","i","t","i","o","n">>,
       <<"s","e","x","u","a","l","i","t","y">>,
       <<"k","i","d","s">>,
       <<"f","a","m","i","l","y">>,
       <<"p","a","r","e","n","t","i","n","g">>,
       <<"p","e","t","s">>,
       <<"a","n","i","m","a","l","s">>,
       <<"s","t","o","r","i","e","s">>,
       <<"l","e","i","s","u","r","e">>,
       <<"a","n","i","m","a","t","i","o","n">>,
       <<"m","a","n","g","a">>,
       <<"a","u","t","o","m","o","t","i","v","e">>,
       <<"a","v","i","a","t","i","o","n">>,
       <<"c","r","a","f","t","s">>,
       <<"g","a","m","e","s">>,
       <<"h","o","b","b","i","e","s">>,
       <<"h","o","m","e">>,
       <<"g","a","r","d","e","n">>,
       <<"v","i","d","e","o","g","a","m","e","s">>,
       <<"m","u","s","i","c">>,
       <<"c","o","m","m","e","n","t","a","r","y">>,
       <<"n","e","w","s">>,
       <<"d","a","i","l","y">>,
       <<"e","n","t","e","r","t","a","i","n","m","e","n","t">>,
       <<"g","o","v","e","r","n","m","e","n","t">>,
       <<"p","o","l","i","t","i","c","s">>,
       <<"b","u","d","d","h","i","s","m">>,
       <<"c","h","r","i","s","t","i","a","n","i","t","y">>,
       <<"h","i","n","d","u","i","s","m">>,
       <<"i","s","l","a","m">>,
       <<"j","u","d","a","i","s","m">>,
       <<"r","e","l","i","g","i","o","n">>,
       <<"s","p","i","r","i","t","u","a","l","i","t","y">>,
       <<"s","c","i","e","n","c","e">>,
       <<"a","s","t","r","o","n","o","m","y">>,
       <<"c","h","e","m","i","s","t","r","y">>,
       <<"e","a","r","t","h">>,
       <<"l","i","f","e">>,
       <<"m","a","t","h","e","m","a","t","i","c","s">>,
       <<"n","a","t","u","r","a","l">>,
       <<"n","a","t","u","r","e">>,
       <<"p","h","y","s","i","c","s">>,
       <<"s","o","c","i","a","l">>,
       <<"s","o","c","i","e","t","y">>,
       <<"c","u","l","t","u","r","e">>,
       <<"d","o","c","u","m","e","n","t","a","r","y">>,
       <<"p","e","r","s","o","n","a","l">>,
       <<"j","o","u","r","n","a","l","s">>,
       <<"p","h","i","l","o","s","o","p","h","y">>,
       <<"p","l","a","c","e","s">>,
       <<"t","r","a","v","e","l">>,
       <<"r","e","l","a","t","i","o","n","s","h","i","p","s">>,
       <<"s","p","o","r","t","s">>,
       <<"b","a","s","e","b","a","l","l">>,
       <<"b","a","s","k","e","t","b","a","l","l">>,
       <<"c","r","i","c","k","e","t">>,
       <<"f","a","n","t","a","s","y">>,
       <<"f","o","o","t","b","a","l","l">>,
       <<"g","o","l","f">>,
       <<"h","o","c","k","e","y">>,
       <<"r","u","g","b","y">>,
       <<"r","u","n","n","i","n","g">>,
       <<"s","o","c","c","e","r">>,
       <<"s","w","i","m","m","i","n","g">>,
       <<"t","e","n","n","i","s">>,
       <<"v","o","l","l","e","y","b","a","l","l">>,
       <<"w","i","l","d","e","r","n","e","s","s">>,
       <<"w","r","e","s","t","l","i","n","g">>,
       <<"t","e","c","h","n","o","l","o","g","y">>,
       <<"t","r","u","e","c","r","i","m","e">>,
       <<"t","v">>,
       <<"f","i","l","m">>,
       <<"a","f","t","e","r","s","h","o","w","s">>,
       <<"r","e","v","i","e","w","s">>,
       <<"c","l","i","m","a","t","e">>,
       <<"w","e","a","t","h","e","r">>,
       <<"t","a","b","l","e","t","o","p">>,
       <<"r","o","l","e","-","p","l","a","y","i","n","g">>,
       <<"c","r","y","p","t","o","c","u","r","r","e","n","c","y">> >>

\* CATEGORY_LOOKUP.iter().position(|v| v == &normalized)
Position(table, v) ==
    IF \E i \in 1..Len(table) : table[i] = v
    THEN Some((CHOOSE i \in 1..Len(table) :
                  table[i] = v /\ \A j \in 1..(i - 1) : table[j] # v) - 1)
    ELSE None

\* Vec::contains
VecContains(list, v) == \E i \in 1..Len(list) : list[i] = v

\* str::replace(c, "")
RemoveChar(s, c) == SelectSeq(s, LAMBDA x : x # c)

\* Vec::dedup: consecutive repeated elements are removed
Dedup(list) ==
    LET keep == {i \in 1..Len(list) : i = 1 \/ list[i] # list[i - 1]}
        Nth(k) == CHOOSE i \in keep : Cardinality({j \in keep : j < i}) = k - 1
    IN  [k \in 1..Cardinality(keep) |-> list[Nth(k)]]

Video == <<"v","i","d","e","o">>
Games == <<"g","a","m","e","s">>
True == <<"t","r","u","e">>
Crime == <<"c","r","i","m","e">>
After == <<"a","f","t","e","r">>
Shows == <<"s","h","o","w","s">>
Self == <<"s","e","l","f">>
Improvement == <<"i","m","p","r","o","v","e","m","e","n","t">>
How == <<"h","o","w">>
To == <<"t","o">>

\* the split-word pairs and their compounds, in the order build_category_ids
\* tests them
Compounds ==
    << [a |-> Video, b |-> Games, name |-> Video \o Games],
       [a |-> True, b |-> Crime, name |-> True \o Crime],
       [a |-> After, b |-> Shows, name |-> After \o Shows],
       [a |-> Self, b |-> Improvement, name |-> Self \o Improvement],
       [a |-> How, b |-> To, name |-> How \o To] >>

\* the five cats.push calls: each test reads the list the pushes before it
\* have extended
RECURSIVE PushCompounds(_, _)
PushCompounds(cats, k) ==
    IF k > Len(Compounds) THEN cats
    ELSE PushCompounds(
            IF VecContains(cats, Compounds[k].a) /\ VecContains(cats, Compounds[k].b)
            THEN Append(cats, Compounds[k].name) ELSE cats,
            k + 1)

\* the code of a name that is in the table at a position above 0
CategoryIndex(name) ==
    LET pos == Position(CATEGORY_LOOKUP, RemoveChar(RemoveChar(name, SP), "-"))
    IN  IF pos # None /\ pos[1] > 0 THEN pos ELSE None

\* the for loop over the names that are left, found holding ids[1..seen]
RECURSIVE CategoryLoop(_, _, _)
CategoryLoop(cats, found, cap) ==
    IF cats = <<>> \/ Len(found) >= cap THEN found
    ELSE CategoryLoop(Tail(cats),
                      IF CategoryIndex(Head(cats)) = None THEN found
                      ELSE Append(found, CategoryIndex(Head(cats))[1]),
                      cap)

CategoryCats(raw) ==
    PushCompounds(
        SelectSeq([i \in 1..Len(raw) |-> to_ascii_lowercase(Trim(raw[i]))],
                  LAMBDA c : c # EMPTY), 1)

\* vec![0_i32; 11] with ids[1..seen] assigned
CategoryIds(found) == [k \in 0..10 |-> IF k \in 1..Len(found) THEN found[k] ELSE 0]

\* mutation of build_category_ids: the loop stops after 7 valid categories
build_category_ids_seven(raw) ==
    CategoryIds(CategoryLoop(CategoryCats(raw), <<>>, 7))

\* utils::build_category_ids: ids[0..10], ids[0] unused
build_category_ids(raw) ==
    CategoryIds(CategoryLoop(CategoryCats(raw), <<>>, 8))

\* the record of the ids, if one of ids[1..10] is not 0
CategoryRecord(cat_ids, fid) ==
    IF \A k \in 1..10 : cat_ids[k] = 0 THEN <<>>
    ELSE << [table |-> "nfcategories", feedid |-> FeedIdJson(fid),
             catid |-> [k \in 1..10 |-> cat_ids[k]]] >>

write_nfcategories(s, fid) ==
    IF s.channel_categories_raw = <<>> THEN <<>>
    ELSE CategoryRecord(build_category_ids(Dedup(s.channel_categories_raw)), fid)

\* category::on_start; text: the element's text attribute
category_on_start(el, text, s) ==
    IF ~(s.in_channel /\ ~s.in_item) THEN s
    ELSE IF text # None
         THEN IF Trim(text[1]) # EMPTY
              THEN [s EXCEPT !.channel_categories_raw = Append(@, Trim(text[1]))]
              ELSE s
         ELSE [s EXCEPT !.in_standard_category = TRUE]

category_on_text(data, s) ==
    IF s.in_standard_category /\ Trim(data) # EMPTY
    THEN [s EXCEPT !.channel_categories_raw = Append(@, Trim(data))]
    ELSE s

category_on_end(s) == [s EXCEPT !.in_standard_category = FALSE]

----------------------------------------------------------------------------
(* The owner of a channel (src/src/tags/itunes_owner.rs)                   *)

itunes_owner_on_start(s) ==
    IF s.in_channel /\ ~s.in_item
    THEN [s EXCEPT
            !.in_channel_itunes_owner = TRUE,
            !.channel_itunes_owner_name = EMPTY,
            !.channel_itunes_owner_email = EMPTY]
    ELSE s

itunes_owner_on_text(el, data, s) ==
    IF ~s.in_channel_itunes_owner THEN s
    ELSE IF el \in {"name", "itunes:name"}
    THEN [s EXCEPT !.channel_itunes_owner_name = @ \o data]
    ELSE IF el \in {"email", "itunes:email"}
    THEN [s EXCEPT !.channel_itunes_owner_email = @ \o data]
    ELSE s

itunes_owner_on_end(s) == [s EXCEPT !.in_channel_itunes_owner = FALSE]

----------------------------------------------------------------------------
(* Channel and item scopes (src/src/tags/channel.rs, item.rs)              *)

channel_on_start(s) ==
    [s EXCEPT
        !.in_channel = TRUE,
        !.channel_title = EMPTY,
        !.channel_link = EMPTY,
        !.channel_description = EMPTY,
        !.channel_itunes_summary = EMPTY,
        !.channel_language = EMPTY,
        !.channel_generator = EMPTY,
        !.channel_itunes_author = EMPTY,
        !.channel_itunes_owner_name = EMPTY,
        !.channel_itunes_owner_email = EMPTY,
        !.in_channel_itunes_owner = FALSE,
        !.channel_podcast_guid = EMPTY,
        !.channel_podcast_locked = 0,
        !.channel_podcast_owner = EMPTY,
        !.channel_podcast_funding_url = EMPTY,
        !.channel_podcast_funding_text = EMPTY,
        !.pubsub_hub_url = EMPTY,
        !.pubsub_self_url = EMPTY,
        !.channel_categories_raw = <<>>,
        !.in_standard_category = FALSE,
        !.channel_value_pending = None,
        !.channel_value_has_lightning = FALSE,
        !.item_pubdates = <<>>,
        !.item_count = 0,
        !.newest_item_pubdate = None,
        !.oldest_item_pubdate = None,
        !.item_hash = Md5New,
        !.channel_pub_date = EMPTY]

\* mutation of channel_on_end: the value block is written first
channel_on_end_value_first(fid, s) ==
    IF s.in_channel
    THEN Ret([s EXCEPT !.channel_value_pending = None, !.in_channel = FALSE],
             (IF s.channel_value_pending # None
              THEN write_nfvalue_from_block(fid, s.channel_value_pending[1][1],
                                            s.channel_value_pending[1][2])
              ELSE <<>>)
                \o write_newsfeeds(s, fid) \o write_nfguids(s, fid) \o write_pubsub(s, fid)
                \o write_nffunding(s, fid) \o write_nfcategories(s, fid))
    ELSE Ret(s, <<>>)

channel_on_end(fid, s) ==
    IF s.in_channel
    THEN Ret([s EXCEPT !.channel_value_pending = None, !.in_channel = FALSE],
             write_newsfeeds(s, fid) \o write_nfguids(s, fid) \o write_pubsub(s, fid)
                \o write_nffunding(s, fid) \o write_nfcategories(s, fid)
                \o (IF s.channel_value_pending # None
                    THEN write_nfvalue_from_block(fid, s.channel_value_pending[1][1],
                                                  s.channel_value_pending[1][2])
                    ELSE <<>>))
    ELSE Ret(s, <<>>)

item_on_start(s) ==
    [s EXCEPT
        !.in_item = TRUE,
        !.item_has_valid_enclosure = FALSE,
        !.item_written = FALSE,
        !.title = EMPTY,
        !.itunes_title = EMPTY,
        !.link = EMPTY,
        !.description = EMPTY,
        !.itunes_summary = EMPTY,
        !.content_encoded = EMPTY,
        !.pub_date = EMPTY,
        !.guid = EMPTY,
        !.itunes_duration = EMPTY,
        !.enclosure_url = EMPTY,
        !.enclosure_length = EMPTY,
        !.enclosure_type = EMPTY,
        !.podcast_funding_url = EMPTY,
        !.podcast_funding_text = EMPTY,
        !.in_podcast_funding = FALSE,
        !.in_podcast_transcript = FALSE,
        !.current_transcript_url = EMPTY,
        !.current_transcript_type = EMPTY,
        !.in_podcast_chapters = FALSE,
        !.current_chapter_url = EMPTY,
        !.current_chapter_type = EMPTY,
        !.in_podcast_soundbite = FALSE,
        !.current_soundbite_title = EMPTY,
        !.current_soundbite_start = EMPTY,
        !.current_soundbite_duration = EMPTY,
        !.in_podcast_person = FALSE,
        !.current_person_name = EMPTY,
        !.current_person_role = EMPTY,
        !.current_person_group = EMPTY,
        !.current_person_img = EMPTY,
        !.current_person_href = EMPTY,
        !.in_podcast_value = FALSE,
        !.value_recipients = <<>>,
        !.value_model_type = EMPTY,
        !.value_model_method = EMPTY,
        !.value_model_suggested = EMPTY,
        !.item_value_pending = None,
        !.item_value_has_lightning = FALSE]

\* mutation of guid_fallback: the guid is left as it is
guid_fallback_skipped(s) == s

\* item.rs 75-77: an empty guid falls back to the enclosure URL
guid_fallback(s) ==
    IF Trim(s.guid) = EMPTY THEN [s EXCEPT !.guid = s.enclosure_url] ELSE s

\* item.rs 78-80: an empty enclosure type is guessed from the URL
type_fallback(s) ==
    IF Trim(s.enclosure_type) = EMPTY
    THEN [s EXCEPT !.enclosure_type = guess_enclosure_type(s.enclosure_url)]
    ELSE s

\* item.rs 102-120: the bytes of one item folded into the running item hash
hash_title(s) == IF Trim(s.itunes_title) # EMPTY THEN Trim(s.itunes_title) ELSE Trim(s.title)

item_hash_bytes(s) ==
    hash_title(s) \o Trim(s.link) \o Trim(s.enclosure_url) \o Trim(s.enclosure_type)
        \o Trim(s.podcast_funding_url) \o Trim(s.podcast_funding_text)

\* mutation of discard_item: the item is counted
discard_item_counted(s) ==
    [s EXCEPT !.item_value_pending = None, !.in_item = FALSE, !.item_count = @ + 1]

\* item.rs 69-73: an item that has no valid enclosure is dropped
discard_item(s) == [s EXCEPT !.item_value_pending = None, !.in_item = FALSE]

\* mutation of newest_pubdate: the last writer wins
newest_pubdate_last(newest, ts) == Some(ts)

\* item.rs 93-96: the running newest date; a tie keeps the first writer
newest_pubdate(newest, ts) ==
    IF newest # None /\ newest[1] >= ts THEN newest ELSE Some(ts)

\* item.rs 97-100: the running oldest date; a tie keeps the first writer
oldest_pubdate(oldest, ts) ==
    IF oldest # None /\ oldest[1] <= ts THEN oldest ELSE Some(ts)

\* mutation of item_discarded: every item is dropped
item_discarded_always(s) == TRUE

\* item.rs 69: an item is dropped unless it has a valid enclosure
item_discarded(s) == ~s.item_has_valid_enclosure

item_on_end(fid, s) ==
    IF ~s.in_item THEN Ret(s, <<>>)
    ELSE IF item_discarded(s)
    THEN Ret(discard_item(s), <<>>)
    ELSE LET s1 == type_fallback(guid_fallback(s))
         IN  Ret([s1 EXCEPT
                    !.item_value_pending = None,
                    !.item_pubdates = Append(@, pub_date_ts(s1)),
                    !.item_count = s1.item_count + 1,
                    !.newest_item_pubdate = newest_pubdate(@, pub_date_ts(s1)),
                    !.oldest_item_pubdate = oldest_pubdate(@, pub_date_ts(s1)),
                    !.item_hash = Md5Consume(s1.item_hash, item_hash_bytes(s1)),
                    !.in_item = FALSE],
                 write_nfitems(s1, fid)
                    \o (IF s1.item_value_pending # None
                        THEN write_nfitem_value_from_block(s1, fid,
                                 s1.item_value_pending[1][1], s1.item_value_pending[1][2])
                        ELSE <<>>))

----------------------------------------------------------------------------
(* Enclosure sources                                                       *)

\* the URL is structurally valid: http:// or https:// after trimming
is_http_url(url) == StartsWith(Trim(url), Http) \/ StartsWith(Trim(url), Https)

\* atom_link.rs 32: an atom enclosure link is taken only while no URL is stored
atom_enclosure_guard(s) == s.in_item /\ s.enclosure_url = EMPTY

\* tags/atom_link.rs on_start; absent attributes are the empty string
atom_link_on_start(rel, href, length, link_type, s) ==
    CASE rel = "alternate" ->
            IF s.in_item /\ s.link = EMPTY THEN [s EXCEPT !.link = href]
            ELSE IF s.in_channel /\ ~s.in_item /\ s.channel_link = EMPTY
                 THEN [s EXCEPT !.channel_link = href]
                 ELSE s
      [] rel = "enclosure" ->
            IF atom_enclosure_guard(s)
            THEN [s EXCEPT
                    !.enclosure_url = href,
                    !.enclosure_length = length,
                    !.enclosure_type = link_type,
                    !.item_has_valid_enclosure = (is_http_url(href) \/ @)]
            ELSE s
      [] rel = "hub" ->
            IF s.in_channel /\ ~s.in_item /\ s.pubsub_hub_url = EMPTY
            THEN [s EXCEPT !.pubsub_hub_url = href] ELSE s
      [] rel = "self" ->
            IF s.in_channel /\ ~s.in_item /\ s.pubsub_self_url = EMPTY
            THEN [s EXCEPT !.pubsub_self_url = href] ELSE s
      [] OTHER -> s

\* tags/enclosure.rs on_start (the file is not among the sources): inside an
\* item the first <enclosure> with an http(s) URL is captured, later ones are
\* ignored; absent attributes are the empty string
enclosure_on_start(url, length, type, s) ==
    IF s.in_item /\ ~s.item_has_valid_enclosure /\ is_http_url(url)
    THEN [s EXCEPT
            !.enclosure_url = url,
            !.enclosure_length = length,
            !.enclosure_type = type,
            !.item_has_valid_enclosure = TRUE]
    ELSE s

----------------------------------------------------------------------------
(* Text fields                                                             *)

\* tags/link.rs on_start; href is the Option of the href attribute
link_on_start(href, s) ==
    IF s.in_item
    THEN (IF href # None THEN [s EXCEPT !.link = href[1]] ELSE s)
    ELSE IF s.in_channel /\ s.channel_link = EMPTY
         THEN (IF href # None THEN [s EXCEPT !.channel_link = href[1]] ELSE s)
         ELSE s

\* tags/link.rs on_text
link_on_text(data, s) ==
    IF s.in_item /\ s.link = EMPTY THEN [s EXCEPT !.link = @ \o data]
    ELSE IF s.in_channel /\ s.channel_link = EMPTY THEN [s EXCEPT !.channel_link = @ \o data]
    ELSE s

\* tags/itunes_author.rs on_text: the text accumulates, inside an element that
\* on_start has flagged (no dispatcher calls that on_start)
itunes_author_on_text(data, s) ==
    IF ~s.in_itunes_author THEN s
    ELSE IF s.in_item THEN s
    ELSE IF s.in_channel THEN [s EXCEPT !.channel_itunes_author = @ \o data]
    ELSE s

\* tags/pub_date.rs on_text
pub_date_on_text(data, s) ==
    IF s.in_item THEN [s EXCEPT !.pub_date = @ \o data]
    ELSE IF s.in_channel /\ s.pub_date = EMPTY
         THEN [s EXCEPT !.channel_pub_date = @ \o data]
         ELSE s

\* tags/itunes_duration.rs on_start
itunes_duration_on_start(s) == IF s.in_item THEN [s EXCEPT !.itunes_duration = EMPTY] ELSE s

\* tags/itunes_duration.rs on_text: the text replaces the stored duration
itunes_duration_on_text(data, s) == IF s.in_item THEN [s EXCEPT !.itunes_duration = data] ELSE s

\* tags/guid.rs on_text (not among the sources): item text accumulates
guid_on_text(data, s) == IF s.in_item THEN [s EXCEPT !.guid = @ \o data] ELSE s

\* tags/title.rs on_text (not among the sources): item text accumulates
title_on_text(data, s) == IF s.in_item THEN [s EXCEPT !.title = @ \o data] ELSE s

\* tags/itunes_title.rs on_text (not among the sources): item text accumulates
itunes_title_on_text(data, s) == IF s.in_item THEN [s EXCEPT !.itunes_title = @ \o data] ELSE s

\* tags/description.rs, itunes_summary.rs, content_encoded.rs and content.rs
\* on_text (not among the sources): the text accumulates in the field that
\* write_nfitems and write_newsfeeds read
description_on_text(data, s) ==
    IF s.in_item THEN [s EXCEPT !.description = @ \o data]
    ELSE IF s.in_channel THEN [s EXCEPT !.channel_description = @ \o data]
    ELSE s

itunes_summary_on_text(data, s) ==
    IF s.in_item THEN [s EXCEPT !.itunes_summary = @ \o data]
    ELSE IF s.in_channel THEN [s EXCEPT !.channel_itunes_summary = @ \o data]
    ELSE s

content_encoded_on_text(data, s) ==
    IF s.in_item THEN [s EXCEPT !.content_encoded = @ \o data] ELSE s

content_on_text(data, s) == IF s.in_item THEN [s EXCEPT !.content = @ \o data] ELSE s

\* tags/podcast_funding.rs; url is the Option of the url attribute
podcast_funding_on_start(url, s) ==
    IF ~s.in_item THEN s
    ELSE [s EXCEPT
            !.in_podcast_funding = TRUE,
            !.podcast_funding_url = IF url # None THEN url[1] ELSE @]

podcast_funding_on_text(data, s) ==
    IF s.in_podcast_funding THEN [s EXCEPT !.podcast_funding_text = @ \o data] ELSE s

podcast_funding_on_end(s) ==
    IF s.in_podcast_funding THEN [s EXCEPT !.in_podcast_funding = FALSE] ELSE s

----------------------------------------------------------------------------
(* Item sub-entities (tags/podcast_transcript.rs, podcast_chapters.rs,     *)
(* podcast_soundbite.rs, podcast_person.rs)                                *)

podcast_transcript_on_start(url, type, s) ==
    IF ~s.in_item THEN s
    ELSE [s EXCEPT
            !.in_podcast_transcript = TRUE,
            !.current_transcript_url = url,
            !.current_transcript_type = type]

\* mutation of transcript_write_guard: the transcript is written without the check
transcript_write_guard_always(s) == TRUE

\* podcast_transcript.rs 27: written only if the item has a valid enclosure
transcript_write_guard(s) == s.item_has_valid_enclosure

podcast_transcript_on_end(fid, s) ==
    IF s.in_podcast_transcript
    THEN LET s1 == [s EXCEPT !.in_podcast_transcript = FALSE]
         IN  IF transcript_write_guard(s1)
             THEN Ret([s1 EXCEPT !.item_hash =
                          Md5Consume(@, Trim(s.current_transcript_url)
                                        \o Trim(s.current_transcript_type))],
                      write_nfitem_transcript(s1, fid))
             ELSE Ret(s1, <<>>)
    ELSE Ret(s, <<>>)

podcast_chapters_on_start(url, type, s) ==
    IF ~s.in_item \/ s.in_podcast_alternate_enclosure THEN s
    ELSE [s EXCEPT
            !.in_podcast_chapters = TRUE,
            !.current_chapter_url = url,
            !.current_chapter_type = type]

\* mutation of chapters_write_guard: the chapters are never written
chapters_write_guard_never(s) == FALSE

\* podcast_chapters.rs 27: written only if the item has a valid enclosure
chapters_write_guard(s) == s.item_has_valid_enclosure

podcast_chapters_on_end(fid, s) ==
    IF s.in_podcast_chapters
    THEN LET s1 == [s EXCEPT !.in_podcast_chapters = FALSE]
         IN  IF chapters_write_guard(s1)
             THEN Ret([s1 EXCEPT !.item_hash =
                          Md5Consume(@, Trim(s.current_chapter_url)
                                        \o Trim(s.current_chapter_type))],
                      write_nfitem_chapters(s1, fid))
             ELSE Ret(s1, <<>>)
    ELSE Ret(s, <<>>)

podcast_soundbite_on_start(start_time, duration, s) ==
    IF ~s.in_item THEN s
    ELSE [s EXCEPT
            !.in_podcast_soundbite = TRUE,
            !.current_soundbite_title = EMPTY,
            !.current_soundbite_start = start_time,
            !.current_soundbite_duration = duration]

podcast_soundbite_on_text(data, s) ==
    IF s.in_podcast_soundbite THEN [s EXCEPT !.current_soundbite_title = @ \o data] ELSE s

podcast_soundbite_on_end(fid, s) ==
    IF s.in_podcast_soundbite
    THEN LET s1 == [s EXCEPT !.in_podcast_soundbite = FALSE]
         IN  IF s1.item_has_valid_enclosure
             THEN Ret([s1 EXCEPT !.item_hash =
                          Md5Consume(@, Trim(s.current_soundbite_title)
                                        \o Trim(s.current_soundbite_start)
                                        \o Trim(s.current_soundbite_duration))],
                      write_nfitem_soundbites(s1, fid))
             ELSE Ret(s1, <<>>)
    ELSE Ret(s, <<>>)

podcast_person_on_start(role, group, img, href, s) ==
    IF ~s.in_item THEN s
    ELSE [s EXCEPT
            !.in_podcast_person = TRUE,
            !.current_person_name = EMPTY,
            !.current_person_role = role,
            !.current_person_group = group,
            !.current_person_img = img,
            !.current_person_href = href]

podcast_person_on_text(data, s) ==
    IF s.in_podcast_person THEN [s EXCEPT !.current_person_name = @ \o data] ELSE s

podcast_person_on_end(fid, s) ==
    IF s.in_podcast_person
    THEN LET s1 == [s EXCEPT !.in_podcast_person = FALSE]
         IN  IF s1.item_has_valid_enclosure
             THEN Ret([s1 EXCEPT !.item_hash =
                          Md5Consume(@, Trim(s.current_person_name)
                                        \o Trim(s.current_person_role)
                                        \o Trim(s.current_person_group)
                                        \o Trim(s.current_person_img)
                                        \o Trim(s.current_person_href))],
                      write_nfitem_persons(s1, fid))
             ELSE Ret(s1, <<>>)
    ELSE Ret(s, <<>>)

----------------------------------------------------------------------------
(* Value blocks (tags/podcast_value.rs, utils::build_value_block,          *)
(* utils::map_value_type)                                                  *)

Lightning == <<"l","i","g","h","t","n","i","n","g">>
Hbd == <<"h","b","d">>
Bitcoin == <<"b","i","t","c","o","i","n">>

map_value_type(raw) ==
    LET v == to_ascii_lowercase(Trim(raw))
    IN  IF v = Lightning THEN 0
        ELSE IF v = Hbd THEN 1
        ELSE IF v = Bitcoin THEN 2
        ELSE 0

I32MaxDigits == <<"2","1","4","7","4","8","3","6","4","7">>
I32MinDigits == <<"2","1","4","7","4","8","3","6","4","8">>
ZeroInt == [neg |-> FALSE, digits |-> <<"0">>]

\* str::parse::<i32>().unwrap_or(0)
parse_i32_or_zero(s) ==
    LET p == ParseI64(s)
    IN  IF p = None THEN ZeroInt
        ELSE IF p[1].neg THEN (IF DecLeq(p[1].digits, I32MinDigits) THEN p[1] ELSE ZeroInt)
        ELSE (IF DecLeq(p[1].digits, I32MaxDigits) THEN p[1] ELSE ZeroInt)

\* the attributes of a podcast:value element (absent ones are the empty string)
podcast_value_on_start(type, method, suggested, s) ==
    IF ~(s.in_channel \/ s.in_item) THEN s
    ELSE [s EXCEPT
            !.in_podcast_value = TRUE,
            !.value_recipients = <<>>,
            !.value_model_type = type,
            !.value_model_method = method,
            !.value_model_suggested = suggested]

\* podcast_value.rs 37, utils.rs 298: the cap on the recipients of one block
MaxRecipients == 100

\* podcast_value.rs 37: further recipients are ignored once the cap is reached
recipient_cap_reached(s) == Len(s.value_recipients) >= MaxRecipients

\* ValueRecipient built from the attributes a: name, type, address, split are
\* strings ("" when absent), fee / customKey / customValue are Options
value_recipient_of(a) ==
    [name |-> a.name,
     recipient_type |-> a.type,
     address |-> a.address,
     split |-> parse_i32_or_zero(a.split),
     fee |-> (a.fee # None /\ to_ascii_lowercase(a.fee[1]) \in
                {<<"t","r","u","e">>, <<"y","e","s">>, <<"1">>}),
     custom_key |-> a.customKey,
     custom_value |-> a.customValue]

\* mutation of on_value_recipient: at the cap the oldest recipient is dropped
on_value_recipient_keep_last(a, s) ==
    IF ~s.in_podcast_value THEN s
    ELSE IF Len(s.value_recipients) >= 100
    THEN [s EXCEPT !.value_recipients = Append(Tail(@), value_recipient_of(a))]
    ELSE [s EXCEPT !.value_recipients = Append(@, value_recipient_of(a))]

on_value_recipient(a, s) ==
    IF ~s.in_podcast_value THEN s
    ELSE IF recipient_cap_reached(s) THEN s
    ELSE [s EXCEPT !.value_recipients = Append(@, value_recipient_of(a))]

\* one destination object of the value block; fee is present only when true
destination_json(r) ==
    [name |-> r.name, type |-> r.recipient_type, address |-> r.address, split |-> r.split,
     fee |-> IF r.fee THEN Some(TRUE) ELSE None,
     customKey |-> r.custom_key, customValue |-> r.custom_value]

\* utils::build_value_block: None without recipients, else the block with at
\* most 100 destinations; suggested is present only when non-empty
build_value_block(s) ==
    IF s.value_recipients = <<>> THEN None
    ELSE LET recips == Take(s.value_recipients, MaxRecipients)
         IN  Some([model |-> [type |-> s.value_model_type,
                              method |-> s.value_model_method,
                              suggested |-> IF s.value_model_suggested # EMPTY
                                            THEN Some(s.value_model_suggested) ELSE None],
                   destinations |-> [i \in 1..Len(recips) |-> destination_json(recips[i])]])

\* the byte order of the letters (u8 comparison)
CharCodes ==
    [c \in {(UpperChars \o LowerChars)[i] : i \in 1..52} |->
        CHOOSE i \in 1..52 : (UpperChars \o LowerChars)[i] = c]
CharCode(c) == CharCodes[c]

\* String::cmp == Less: byte-wise lexicographic order
RECURSIVE StrLess(_, _)
StrLess(a, b) ==
    IF b = <<>> THEN FALSE
    ELSE IF a = <<>> THEN TRUE
    ELSE IF Head(a) = Head(b) THEN StrLess(Tail(a), Tail(b))
    ELSE CharCode(Head(a)) < CharCode(Head(b))

\* serde_json::Value; an object is the sequence of its members as serialized
JString(s) == [t |-> "string", v |-> s]
JNumber(n) == [t |-> "number", v |-> n]
JBool(b) == [t |-> "bool", v |-> b]
JArray(items) == [t |-> "array", v |-> items]
JObject(members) == [t |-> "object", v |-> members]
Member(key, value) == [key |-> key, value |-> value]

\* keys.sort_unstable() and the inserts that follow it: the members by
\* ascending key
RECURSIVE InsertMember(_, _)
InsertMember(sorted, m) ==
    IF sorted = <<>> THEN <<m>>
    ELSE IF StrLess(m.key, Head(sorted).key) THEN <<m>> \o sorted
    ELSE <<Head(sorted)>> \o InsertMember(Tail(sorted), m)

RECURSIVE SortMembers(_)
SortMembers(members) ==
    IF members = <<>> THEN <<>>
    ELSE InsertMember(SortMembers(Tail(members)), Head(members))

\* serde_json::Map built by inserts of distinct keys: a BTreeMap orders them
\* by key, an IndexMap (feature preserve_order) keeps the order of the inserts
MapOf(members, btree) == IF btree THEN SortMembers(members) ELSE members

KeyName == <<"n","a","m","e">>
KeyType == <<"t","y","p","e">>
KeyAddress == <<"a","d","d","r","e","s","s">>
KeySplit == <<"s","p","l","i","t">>
KeyFee == <<"f","e","e">>
KeyCustomKey == <<"c","u","s","t","o","m","K","e","y">>
KeyCustomValue == <<"c","u","s","t","o","m","V","a","l","u","e">>
KeyMethod == <<"m","e","t","h","o","d">>
KeySuggested == <<"s","u","g","g","e","s","t","e","d">>
KeyModel == <<"m","o","d","e","l">>
KeyDestinations == <<"d","e","s","t","i","n","a","t","i","o","n","s">>

\* build_value_block 302-316: the object of one destination
destination_object(d, btree) ==
    JObject(MapOf(
        << Member(KeyName, JString(d.name)), Member(KeyType, JString(d.type)),
           Member(KeyAddress, JString(d.address)), Member(KeySplit, JNumber(d.split)) >>
        \o (IF d.fee # None THEN << Member(KeyFee, JBool(TRUE)) >> ELSE <<>>)
        \o (IF d.customKey # None THEN << Member(KeyCustomKey, JString(d.customKey[1])) >>
            ELSE <<>>)
        \o (IF d.customValue # None
            THEN << Member(KeyCustomValue, JString(d.customValue[1])) >> ELSE <<>>),
        btree))

\* the keys of the model HashMap
ModelKeys(m) == {KeyType, KeyMethod} \cup (IF m.suggested # None THEN {KeySuggested} ELSE {})

\* the orders in which a HashMap of these keys can be iterated
HashOrders(keys) ==
    {order \in [1..Cardinality(keys) -> keys] :
        \A i, j \in 1..Cardinality(keys) : i # j => order[i] # order[j]}

\* build_value_block 321-327 and the model member of json!: the HashMap
\* serialized in the iteration order
model_object(m, order, btree) ==
    JObject(MapOf(
        [i \in 1..Len(order) |->
            Member(order[i],
                   JString(IF order[i] = KeyType THEN m.type
                           ELSE IF order[i] = KeyMethod THEN m.method
                           ELSE m.suggested[1]))],
        btree))

\* build_value_block 329-332: json!({ "model": model, "destinations": destinations })
\* of the block of build_value_block
value_block_json(block, order, btree) ==
    JObject(MapOf(
        << Member(KeyModel, model_object(block.model, order, btree)),
           Member(KeyDestinations,
                  JArray([i \in 1..Len(block.destinations) |->
                             destination_object(block.destinations[i], btree)])) >>,
        btree))

\* mutation of canonicalize_json: the items of an array are left as they are
RECURSIVE canonicalize_json_shallow(_)
canonicalize_json_shallow(value) ==
    CASE value.t = "object" ->
            LET sorted == SortMembers(value.v)
            IN  JObject([i \in 1..Len(sorted) |->
                            Member(sorted[i].key, canonicalize_json_shallow(sorted[i].value))])
      [] OTHER -> value

RECURSIVE canonicalize_json(_)
canonicalize_json(value) ==
    CASE value.t = "object" ->
            LET sorted == SortMembers(value.v)
            IN  JObject([i \in 1..Len(sorted) |->
                            Member(sorted[i].key, canonicalize_json(sorted[i].value))])
      [] value.t = "array" ->
            JArray([i \in 1..Len(value.v) |-> canonicalize_json(value.v[i])])
      [] OTHER -> value

DQ == "\""

\* the string literal of s, a quote and a backslash escaped
JsonQuote(s) ==
    <<DQ>> \o Flatten([i \in 1..Len(s) |->
                          IF s[i] \in {DQ, "\\"} THEN <<"\\", s[i]>> ELSE <<s[i]>>])
           \o <<DQ>>

\* the parts with a comma between each two
RECURSIVE JoinComma(_)
JoinComma(parts) ==
    IF parts = <<>> THEN <<>>
    ELSE IF Len(parts) = 1 THEN parts[1]
    ELSE parts[1] \o <<",">> \o JoinComma(Tail(parts))

\* serde_json::Value::to_string: the compact form, members in their order
RECURSIVE to_string(_)
to_string(value) ==
    CASE value.t = "string" -> JsonQuote(value.v)
      [] value.t = "number" -> (IF value.v.neg THEN <<"-">> ELSE <<>>) \o value.v.digits
      [] value.t = "bool" -> IF value.v THEN <<"t","r","u","e">> ELSE <<"f","a","l","s","e">>
      [] value.t = "array" ->
            <<"[">> \o JoinComma([i \in 1..Len(value.v) |-> to_string(value.v[i])]) \o <<"]">>
      [] value.t = "object" ->
            <<"{">> \o JoinComma([i \in 1..Len(value.v) |->
                                    JsonQuote(value.v[i].key) \o <<":">>
                                        \o to_string(value.v[i].value)])
                    \o <<"}">>

canonical_json_string(value) == to_string(canonicalize_json(value))

\* mutation of value_replaces: every closed block replaces the pending one
value_replaces_always(has_lightning, type_code, pending) == TRUE

\* podcast_value.rs 66 / 73: whether a closed block replaces the pending one
value_replaces(has_lightning, type_code, pending) ==
    ~has_lightning \/ type_code = 0 \/ pending = None

podcast_value_on_end(s) ==
    LET block == build_value_block(s)
        type_code == map_value_type(s.value_model_type)
        s1 == IF s.in_podcast_value /\ s.value_recipients # <<>> /\ block # None
              THEN IF s.in_item /\ s.item_has_valid_enclosure
                   THEN IF value_replaces(s.item_value_has_lightning, type_code,
                                          s.item_value_pending)
                        THEN [s EXCEPT
                                !.item_value_pending = Some(<<type_code, block[1]>>),
                                !.item_value_has_lightning = (type_code = 0 \/ @)]
                        ELSE s
                   ELSE IF s.in_channel
                        THEN IF value_replaces(s.channel_value_has_lightning, type_code,
                                               s.channel_value_pending)
                             THEN [s EXCEPT
                                     !.channel_value_pending = Some(<<type_code, block[1]>>),
                                     !.channel_value_has_lightning = (type_code = 0 \/ @)]
                             ELSE s
                        ELSE s
              ELSE s
    IN  [s1 EXCEPT
            !.in_podcast_value = FALSE,
            !.value_recipients = <<>>,
            !.value_model_type = EMPTY,
            !.value_model_method = EMPTY,
            !.value_model_suggested = EMPTY]

----------------------------------------------------------------------------
(* Dispatch table (src/src/tags/mod.rs).  The attributes of an element are *)
(* a record: a name outside its domain is an absent attribute.             *)

Attr(a, name) == IF name \in DOMAIN a THEN Some(a[name]) ELSE None
AttrStr(a, name) == IF name \in DOMAIN a THEN a[name] ELSE EMPTY
NoAttrs == [none |-> EMPTY]

ChannelNames == {"channel", "atom:feed"}
ItemNames == {"item", "atom:entry"}
SubEntityNames == {"podcast:transcript", "podcast:chapters", "podcast:soundbite",
                   "podcast:person"}

dispatch_start(el, a, s) ==
    CASE el = "channel" -> channel_on_start([s EXCEPT !.feed_type = 0])
      [] el = "atom:feed" -> channel_on_start([s EXCEPT !.feed_type = 1])
      [] el \in ItemNames -> item_on_start(s)
      [] el = "link" -> link_on_start(Attr(a, "href"), s)
      [] el = "itunes:duration" -> itunes_duration_on_start(s)
      [] el = "itunes:owner" -> itunes_owner_on_start(s)
      [] el = "podcast:transcript" ->
            podcast_transcript_on_start(AttrStr(a, "url"), AttrStr(a, "type"), s)
      [] el = "podcast:chapters" ->
            podcast_chapters_on_start(AttrStr(a, "url"), AttrStr(a, "type"), s)
      [] el = "podcast:soundbite" ->
            podcast_soundbite_on_start(AttrStr(a, "startTime"), AttrStr(a, "duration"), s)
      [] el = "podcast:person" ->
            podcast_person_on_start(AttrStr(a, "role"), AttrStr(a, "group"),
                                    AttrStr(a, "img"), AttrStr(a, "href"), s)
      [] el = "podcast:value" ->
            podcast_value_on_start(AttrStr(a, "type"), AttrStr(a, "method"),
                                   AttrStr(a, "suggested"), s)
      [] el = "podcast:valueRecipient" ->
            on_value_recipient([name |-> AttrStr(a, "name"), type |-> AttrStr(a, "type"),
                                address |-> AttrStr(a, "address"),
                                split |-> AttrStr(a, "split"), fee |-> Attr(a, "fee"),
                                customKey |-> Attr(a, "customKey"),
                                customValue |-> Attr(a, "customValue")], s)
      [] el = "enclosure" ->
            enclosure_on_start(AttrStr(a, "url"), AttrStr(a, "length"), AttrStr(a, "type"), s)
      [] el = "podcast:alternateEnclosure" ->
            IF s.in_item THEN [s EXCEPT !.in_podcast_alternate_enclosure = TRUE] ELSE s
      [] el = "atom:link" ->
            atom_link_on_start((IF "rel" \in DOMAIN a THEN a.rel ELSE ""),
                               AttrStr(a, "href"), AttrStr(a, "length"),
                               AttrStr(a, "type"), s)
      [] el = "podcast:funding" -> podcast_funding_on_start(Attr(a, "url"), s)
      [] el = "itunes:category" -> category_on_start(el, Attr(a, "text"), s)
      [] OTHER -> s

dispatch_text(el, data, s) ==
    LET s1 == CASE el = "title" -> title_on_text(data, s)
                [] el = "link" -> link_on_text(data, s)
                [] el \in {"guid", "id"} -> guid_on_text(data, s)
                [] el \in {"description", "atom:subtitle", "subtitle", "summary"} ->
                      description_on_text(data, s)
                [] el = "content:encoded" -> content_encoded_on_text(data, s)
                [] el \in {"pubDate", "atom:updated", "published"} -> pub_date_on_text(data, s)
                [] el = "itunes:summary" -> itunes_summary_on_text(data, s)
                [] el = "content" -> content_on_text(data, s)
                [] el = "itunes:author" -> itunes_author_on_text(data, s)
                [] el = "itunes:title" -> itunes_title_on_text(data, s)
                [] el = "itunes:duration" -> itunes_duration_on_text(data, s)
                [] OTHER -> s
        \* context-aware handlers, run for every text event
        s2 == category_on_text(data, s1)
        s3 == podcast_funding_on_text(data, s2)
        s4 == podcast_soundbite_on_text(data, itunes_owner_on_text(el, data, s3))
    IN  podcast_person_on_text(data, s4)

dispatch_end(el, fid, s) ==
    CASE el \in ChannelNames -> channel_on_end(fid, s)
      [] el \in ItemNames -> item_on_end(fid, s)
      [] el = "itunes:owner" -> Ret(itunes_owner_on_end(s), <<>>)
      [] el \in {"funding", "podcast:funding"} -> Ret(podcast_funding_on_end(s), <<>>)
      [] el \in {"category", "itunes:category"} -> Ret(category_on_end(s), <<>>)
      [] el = "podcast:transcript" -> podcast_transcript_on_end(fid, s)
      [] el = "podcast:chapters" -> podcast_chapters_on_end(fid, s)
      [] el = "podcast:soundbite" -> podcast_soundbite_on_end(fid, s)
      [] el = "podcast:person" -> podcast_person_on_end(fid, s)
      [] el = "podcast:value" -> Ret(podcast_value_on_end(s), <<>>)
      [] el = "podcast:alternateEnclosure" ->
            Ret([s EXCEPT !.in_podcast_alternate_enclosure = FALSE], <<>>)
      [] OTHER -> Ret(s, <<>>)

----------------------------------------------------------------------------
(* The parse loop of process_feed_sync (src/src/main.rs 265-307): one      *)
(* event per step.                                                         *)

\* Ok(XmlEvent::StartElement)
on_start_element(el, a, s) == dispatch_start(el, a, [s EXCEPT !.current_element = el])

\* Ok(XmlEvent::Characters) and Ok(XmlEvent::CData)
on_characters(data, s) == dispatch_text(s.current_element, data, s)

\* Ok(XmlEvent::EndElement)
on_end_element(el, fid, s) == dispatch_end(el, fid, [s EXCEPT !.current_element = el])

\* mutation of on_error: the loop goes on to the next event
on_error_continue(p) == p

\* Err(e): the loop breaks
on_error(p) == "stopped"

----------------------------------------------------------------------------
(* The event source.  The root element (rss, rdf:RDF) reaches no handler   *)
(* and is left implicit: an empty stack is the inside of the root.  Text   *)
(* is yielded only inside elements that have no child elements.            *)

Top == IF stack = <<>> THEN "" ELSE stack[Len(stack)]
Open(names) == \E i \in 1..Len(stack) : stack[i] \in names

\* elements whose content is text
TextElements == {"guid", "id", "title", "itunes:title", "link", "itunes:duration",
                 "podcast:soundbite", "podcast:person", "podcast:funding", "pubDate"}

\* the element that holds the innermost open element ("": the root)
Parent == IF Len(stack) < 2 THEN "" ELSE stack[Len(stack) - 1]

\* the item whose element is open (0: none), the channel whose element is open
OpenItem == IF Open(ItemNames) THEN ghost.items ELSE 0
OpenChannel == IF Open(ChannelNames) THEN ghost.epoch ELSE 0

\* an enclosure source of the open item: its url, length and type as written
SourceOf(el, a) ==
    IF el = "enclosure" THEN [url |-> AttrStr(a, "url"), length |-> AttrStr(a, "length"),
                              type |-> AttrStr(a, "type")]
    ELSE [url |-> AttrStr(a, "href"), length |-> AttrStr(a, "length"),
          type |-> AttrStr(a, "type")]

IsValidSource(el, a) ==
    /\ Open(ItemNames)
    /\ \/ el = "enclosure"
       \/ el = "atom:link" /\ "rel" \in DOMAIN a /\ a.rel = "enclosure"
    /\ is_http_url(SourceOf(el, a).url)

IsInvalidSource(el, a) ==
    /\ Open(ItemNames)
    /\ \/ el = "enclosure"
       \/ el = "atom:link" /\ "rel" \in DOMAIN a /\ a.rel = "enclosure"
    /\ ~is_http_url(SourceOf(el, a).url)

\* the metrics of a channel: the count of its items, their dates and the
\* running hash
Metrics(s) ==
    [item_count |-> s.item_count,
     item_pubdates |-> s.item_pubdates,
     newest_item_pubdate |-> s.newest_item_pubdate,
     oldest_item_pubdate |-> s.oldest_item_pubdate,
     item_hash |-> s.item_hash]

GhostInit ==
    [items |-> 0,            \* item elements started so far
     epoch |-> 0,            \* channel elements started so far
     first |-> None,         \* first valid enclosure source of the open item
     nsrc |-> 0,             \* valid enclosure sources of the open item (up to 2)
     first_el |-> "",        \* the element of the first valid enclosure source
     bad |-> {},             \* the elements of the enclosure sources without an
                             \* http(s) URL that came before the first valid one
     kids |-> {},            \* sub-elements closed in the open item
     duration |-> None,      \* text of the last itunes:duration that is direct
                             \* content of the open item
     nested |-> {},          \* elements started inside a podcast:alternateEnclosure
                             \* of the open item
     entity |-> None,        \* text and attributes, as written, of the last
                             \* sub-entity element (transcript, chapters,
                             \* soundbite, person) that is direct content of
                             \* the open item
     recips |-> <<>>,        \* recipients of the open podcast:value, as written
     item_blocks |-> <<>>,   \* value blocks closed inside the open item
     chan_blocks |-> <<>>,   \* value blocks closed in the open channel, not after
                             \* the valid enclosure of an item
     tuples |-> <<>>,        \* 6-tuples of the items emitted in the open channel
     now |-> 0,              \* the system clock, in seconds since the epoch
     doc |-> None,           \* the document handed to the loop as a whole
     metrics |-> None,       \* the channel's metrics at the start of the last item
     failed |-> FALSE,       \* the event source yielded an Error
     at_error |-> <<>>]      \* the records at the time of the Error

GhostStart(el, a) ==
    CASE el \in ChannelNames ->
            [ghost EXCEPT !.epoch = @ + 1, !.tuples = <<>>, !.chan_blocks = <<>>]
      [] el \in ItemNames ->
            [ghost EXCEPT !.items = @ + 1, !.first = None, !.nsrc = 0, !.kids = {},
                          !.first_el = "", !.bad = {},
                          !.metrics = Some(Metrics(state)),
                          !.duration = None, !.nested = {}, !.entity = None,
                          !.item_blocks = <<>>]
      [] el = "itunes:duration" /\ Top \in ItemNames -> [ghost EXCEPT !.duration = Some(EMPTY)]
      [] Top = "podcast:alternateEnclosure" -> [ghost EXCEPT !.nested = @ \cup {el}]
      [] el \in SubEntityNames /\ Top \in ItemNames ->
            [ghost EXCEPT !.entity = Some([text |-> EMPTY, attrs |-> a])]
      [] el = "podcast:value" -> [ghost EXCEPT !.recips = <<>>]
      [] el = "podcast:valueRecipient" -> [ghost EXCEPT !.recips = Append(@, a)]
      [] IsValidSource(el, a) ->
            [ghost EXCEPT !.first = IF @ = None THEN Some(SourceOf(el, a)) ELSE @,
                          !.first_el = IF ghost.first = None THEN el ELSE @,
                          !.nsrc = Min(@ + 1, 2)]
      [] IsInvalidSource(el, a) /\ ghost.first = None -> [ghost EXCEPT !.bad = @ \cup {el}]
      [] OTHER -> ghost

\* what the properties know of a record: where and when it was emitted
Stamp(out, el) ==
    [i \in 1..Len(out) |->
        [rec |-> out[i],
         at |-> el,
         parent |-> Parent,
         item |-> OpenItem,
         channel |-> OpenChannel,
         epoch |-> ghost.epoch,
         first |-> ghost.first,
         nsrc |-> ghost.nsrc,
         guid_text |-> state.guid,
         duration_text |-> ghost.duration,
         nested |-> ghost.nested,
         entity |-> ghost.entity,
         stored_url |-> state.enclosure_url,
         item_blocks |-> ghost.item_blocks,
         chan_blocks |-> ghost.chan_blocks,
         tuples |-> ghost.tuples,
         item_pending |-> state.item_value_pending,
         chan_pending |-> state.channel_value_pending]]

\* a closed podcast:value with at least one recipient: its type code, the block
\* built from it, its recipients as written, whether it is direct content of
\* the channel and whether a valid enclosure source of its item came before it
ClosedBlock ==
    [code |-> map_value_type(state.value_model_type),
     block |-> build_value_block(state)[1],
     written |-> ghost.recips,
     direct |-> ~Open(ItemNames),
     after_src |-> Open(ItemNames) /\ ghost.first # None]

GhostValueEnd ==
    LET g == [ghost EXCEPT !.kids = IF Open(ItemNames) THEN @ \cup {"podcast:value"} ELSE @]
    IN  IF state.value_recipients = <<>> THEN g
        ELSE [g EXCEPT
                !.item_blocks = IF Open(ItemNames) THEN Append(@, ClosedBlock) ELSE @,
                !.chan_blocks = IF Open(ChannelNames) /\ ~ClosedBlock.after_src
                                THEN Append(@, ClosedBlock) ELSE @]

GhostEnd(el, ret) ==
    CASE el \in ItemNames ->
            IF \E i \in 1..Len(ret.out) : ret.out[i].table = "nfitems"
            THEN [ghost EXCEPT !.tuples =
                     Append(@, item_hash_bytes(type_fallback(guid_fallback(state))))]
            ELSE ghost
      [] el = "podcast:value" -> GhostValueEnd
      [] Open(ItemNames) /\ el \notin ItemNames -> [ghost EXCEPT !.kids = @ \cup {el}]
      [] OTHER -> ghost

\* Ok(XmlEvent::StartElement { name, attributes })
StartElement(el, a) ==
    /\ pc = "parsing"
    /\ nev > 0
    /\ state' = on_start_element(el, a, state)
    /\ stack' = Append(stack, el)
    /\ nev' = nev - 1
    /\ ghost' = GhostStart(el, a)
    /\ UNCHANGED <<records, feed_id, pc, GLOBAL_COUNTER, tasks>>

StartChannel(el) ==
    /\ el \in ChannelNames
    /\ stack = <<>>
    /\ StartElement(el, NoAttrs)

\* a channel holds item elements, an Atom feed holds entry elements
StartItem(el) ==
    /\ el \in ItemNames
    /\ Top \in {""} \cup ChannelNames
    /\ Top = "channel" => el = "item"
    /\ Top = "atom:feed" => el = "atom:entry"
    /\ StartElement(el, NoAttrs)

StartEnclosure(a) ==
    /\ Top \in ItemNames
    /\ StartElement("enclosure", a)

StartAtomLink(a) ==
    /\ Top \in ItemNames \cup ChannelNames
    /\ StartElement("atom:link", a)

StartTranscript(a) ==
    /\ Top \in ItemNames
    /\ StartElement("podcast:transcript", a)

StartChapters(a) ==
    /\ Top \in ItemNames
    /\ StartElement("podcast:chapters", a)

StartSoundbite(a) ==
    /\ Top \in ItemNames
    /\ StartElement("podcast:soundbite", a)

StartPerson(a) ==
    /\ Top \in ItemNames
    /\ StartElement("podcast:person", a)

StartField(el) ==
    /\ el \in {"guid", "id", "title", "itunes:title", "link"}
    /\ Top \in ItemNames
    /\ StartElement(el, NoAttrs)

\* a link element, with or without an href
StartLink(a) ==
    /\ Top \in ItemNames \cup ChannelNames
    /\ StartElement("link", a)

StartPubDate ==
    /\ Top \in ItemNames \cup ChannelNames
    /\ StartElement("pubDate", NoAttrs)

StartDuration ==
    /\ Top \in ItemNames
    /\ StartElement("itunes:duration", NoAttrs)

StartAlternateEnclosure ==
    /\ Top \in ItemNames
    /\ StartElement("podcast:alternateEnclosure", NoAttrs)

\* an element inside a podcast:alternateEnclosure
StartNested(el, a) ==
    /\ el \in {"itunes:duration", "podcast:chapters", "podcast:transcript"}
    /\ Top = "podcast:alternateEnclosure"
    /\ StartElement(el, a)

\* the text of the open element grows by data when it is an itunes:duration,
\* a podcast:soundbite or a podcast:person that is direct content of the item
GhostText(data) ==
    IF Top = "itunes:duration" /\ Parent \in ItemNames /\ ghost.duration # None
    THEN [ghost EXCEPT !.duration = Some(@[1] \o data)]
    ELSE IF /\ Top \in {"podcast:soundbite", "podcast:person"} /\ Parent \in ItemNames
            /\ ghost.entity # None
    THEN [ghost EXCEPT !.entity = Some([@[1] EXCEPT !.text = @ \o data])]
    ELSE ghost

StartValue(a) ==
    /\ Top \in ItemNames \cup ChannelNames
    /\ StartElement("podcast:value", a)

StartValueRecipient(a) ==
    /\ Top = "podcast:value"
    /\ StartElement("podcast:valueRecipient", a)

\* Ok(XmlEvent::Characters(data)) and Ok(XmlEvent::CData(data))
Characters(data) ==
    /\ pc = "parsing"
    /\ nev > 0
    /\ Top \in TextElements
    /\ state' = on_characters(data, state)
    /\ nev' = nev - 1
    /\ ghost' = GhostText(data)
    /\ UNCHANGED <<records, feed_id, pc, stack, GLOBAL_COUNTER, tasks>>

\* the end of el writes an item whose duration arithmetic overflows
\* (item::on_end reaches outputs::write_nfitems, outputs.rs 184)
WriterOverflows(el, s) ==
    /\ el \in ItemNames
    /\ s.in_item
    /\ ~item_discarded(s)
    /\ parse_itunes_duration_overflows(Trim(s.itunes_duration))

\* Ok(XmlEvent::EndElement { name }): the innermost open element ends. Where
\* the item writer overflows, the build decides: with overflow checks the
\* blocking task panics and nothing more of the feed is written, without
\* them the arithmetic wraps
EndElement ==
    /\ pc = "parsing"
    /\ stack # <<>>
    /\ \E panic \in IF WriterOverflows(Top, state) THEN BOOLEAN ELSE {FALSE} :
         IF panic
         THEN /\ pc' = "panicked"
              /\ UNCHANGED <<state, records, ghost, stack>>
         ELSE LET ret == on_end_element(Top, feed_id, state)
              IN  /\ state' = ret.st
                  /\ records' = records \o Stamp(ret.out, Top)
                  /\ ghost' = GhostEnd(Top, ret)
                  /\ stack' = SubSeq(stack, 1, Len(stack) - 1)
                  /\ pc' = pc
    /\ UNCHANGED <<feed_id, nev, GLOBAL_COUNTER, tasks>>

\* Err(e): eprintln and break
Error ==
    /\ pc = "parsing"
    /\ pc' = on_error(pc)
    /\ ghost' = [ghost EXCEPT !.failed = TRUE, !.at_error = records]
    /\ UNCHANGED <<state, records, feed_id, stack, nev, GLOBAL_COUNTER, tasks>>

\* the event source is exhausted after the root element has ended
EndDocument ==
    /\ pc = "parsing"
    /\ stack = <<>>
    /\ pc' = "done"
    /\ UNCHANGED <<state, records, feed_id, stack, nev, ghost, GLOBAL_COUNTER, tasks>>

----------------------------------------------------------------------------
(* Inputs                                                                  *)

FeedIds == {None, Some(7)}

InitWith(budget, ids) ==
    /\ state = ParserStateDefault
    /\ records = <<>>
    /\ feed_id \in ids
    /\ pc = "parsing"
    /\ stack = <<>>
    /\ nev = budget
    /\ ghost = GhostInit
    /\ GLOBAL_COUNTER = 0
    /\ tasks = <<>>

SrcA == [url |-> Https \o <<"a">>, length |-> <<"1">>, type |-> <<"x">>]
SrcB == [url |-> <<SP>> \o Http \o <<"b", ".", "m", "p", "3">>, length |-> <<"2">>, type |-> EMPTY]
SrcBad == [url |-> Ftp \o <<"c">>, length |-> <<"3">>, type |-> <<"y">>]
Sources == {SrcA, SrcB, SrcBad}

AtomOf(src) == [rel |-> "enclosure", href |-> src.url, length |-> src.length, type |-> src.type]

ChildAttrs == {[url |-> <<"u">>, type |-> <<"v">>]}
SoundbiteAttrs == {[startTime |-> <<"1">>, duration |-> <<"2">>]}
PersonAttrs == {[role |-> <<"r">>]}
ValueAttrs == {[type |-> Lightning, method |-> <<"k">>]}
RecipientAttrs == {[name |-> <<"n">>, type |-> <<"t">>, address |-> <<"a">>, split |-> <<"5">>]}
Texts == {<<"g">>, <<SP>>}

----------------------------------------------------------------------------
(* Items: enclosure sources and sub-entities of single items               *)

MaxEventsItem == 4

InitItem == InitWith(MaxEventsItem, {None})

NextItem ==
    \/ \E el \in ItemNames : StartItem(el)
    \/ \E src \in Sources : StartEnclosure(src)
    \/ \E src \in Sources : StartAtomLink(AtomOf(src))
    \/ \E a \in ChildAttrs : StartTranscript(a)
    \/ \E a \in ChildAttrs : StartChapters(a)
    \/ \E a \in SoundbiteAttrs : StartSoundbite(a)
    \/ \E a \in PersonAttrs : StartPerson(a)
    \/ \E a \in ValueAttrs : StartValue(a)
    \/ \E a \in RecipientAttrs : StartValueRecipient(a)
    \/ \E data \in Texts : Characters(data)
    \/ EndElement
    \/ Error
    \/ EndDocument

SpecItem == InitItem /\ [][NextItem]_vars

ItemTables == {"nfitems", "nfitem_transcripts", "nfitem_chapters", "nfitem_soundbites",
               "nfitem_persons", "nfitem_value"}

\* C1: every nfitems record and every child record of an item is emitted only
\* when an enclosure with an http:// or https:// URL has been seen in that item
\* and is the one the engine holds: an item without one emits none of them
C1_NoRecordWithoutEnclosure ==
    \A i \in 1..Len(records) :
        records[i].rec.table \in ItemTables =>
            /\ records[i].item > 0
            /\ records[i].first # None
            /\ is_http_url(records[i].stored_url)

\* an item that held a transcript and an enclosure source without an http(s)
\* URL has ended and nothing was emitted
C1_Witness ==
    /\ stack = <<>>
    /\ ghost.items = 1
    /\ ghost.first = None
    /\ "podcast:transcript" \in ghost.kids
    /\ ghost.kids \cap {"enclosure", "atom:link"} # {}
    /\ records = <<>>

\* the three enclosure fields of nfitems as emitted for the source src alone
EmittedEnclosure(src) ==
    LET r == write_nfitems(type_fallback([ParserStateDefault EXCEPT
                                !.enclosure_url = src.url,
                                !.enclosure_length = src.length,
                                !.enclosure_type = src.type]), None)[1]
    IN  <<r.enclosure_url, r.enclosure_length, r.enclosure_type>>

\* C2: the enclosure_url, enclosure_length and enclosure_type of an nfitems
\* record whose item held two or more valid enclosure sources are those of the
\* first valid source in document order
C2_FirstEnclosureWins ==
    \A i \in 1..Len(records) :
        records[i].rec.table = "nfitems" /\ records[i].nsrc >= 2 =>
            <<records[i].rec.enclosure_url, records[i].rec.enclosure_length,
              records[i].rec.enclosure_type>> = EmittedEnclosure(records[i].first[1])


----------------------------------------------------------------------------
(* Guid: the explicit guid of an item and its fallback                     *)

MaxEventsGuid == 5

\* an enclosure whose trimmed URL is wider than both nfitems widths
SrcLong == [url |-> Https \o Rep("x", EnclosureUrlWidth), length |-> <<"4">>, type |-> <<"x">>]

InitGuid == InitWith(MaxEventsGuid, {None})

NextGuid ==
    \/ \E el \in ItemNames : StartItem(el)
    \/ \E src \in {SrcB, SrcLong} : StartEnclosure(src)
    \/ \E src \in {SrcB, SrcLong} : StartAtomLink(AtomOf(src))
    \/ \E el \in {"guid", "id"} : StartField(el)
    \/ \E data \in Texts : Characters(data)
    \/ EndElement
    \/ Error
    \/ EndDocument

SpecGuid == InitGuid /\ [][NextGuid]_vars

\* C6 as stated: an emitted item whose guid text is empty or whitespace-only
\* carries as guid the enclosure URL emitted in the same record; any other
\* guid text is emitted (trimmed, cut to the guid width) and not replaced
C6_GuidEqualsEmittedUrl ==
    \A i \in 1..Len(records) :
        records[i].rec.table = "nfitems" =>
            IF Trim(records[i].guid_text) = EMPTY
            THEN records[i].rec.guid = records[i].rec.enclosure_url
            ELSE records[i].rec.guid = truncate_str(records[i].guid_text, GuidWidth)

\* C6 amended: an emitted item whose guid text is empty or whitespace-only
\* carries as guid the trimmed enclosure URL of the item cut to the guid width
\* (740), which is the emitted enclosure URL whenever the trimmed URL fits the
\* enclosure URL width (738); any other guid text is emitted trimmed and cut to
\* the guid width, never replaced by the enclosure URL
C6_GuidFallback ==
    \A i \in 1..Len(records) :
        records[i].rec.table = "nfitems" =>
            IF Trim(records[i].guid_text) = EMPTY
            THEN /\ records[i].rec.guid = truncate_str(records[i].stored_url, GuidWidth)
                 /\ Len(Trim(records[i].stored_url)) <= EnclosureUrlWidth
                        => records[i].rec.guid = records[i].rec.enclosure_url
            ELSE records[i].rec.guid = truncate_str(records[i].guid_text, GuidWidth)

\* an item with a whitespace-only guid and an enclosure URL wider than the
\* guid width was emitted: its guid is the URL cut to the guid width
C6_Witness ==
    \E i \in 1..Len(records) :
        /\ records[i].rec.table = "nfitems"
        /\ records[i].guid_text = <<SP>>
        /\ Len(Trim(records[i].stored_url)) > GuidWidth
        /\ Len(records[i].rec.guid) = GuidWidth
        /\ records[i].rec.guid # records[i].rec.enclosure_url

----------------------------------------------------------------------------
(* Feeds: channels, their items and the records of both                    *)

MaxEventsFeed == 6

InitFeed == InitWith(MaxEventsFeed, FeedIds)

NextFeed ==
    \/ \E el \in ChannelNames : StartChannel(el)
    \/ \E el \in ItemNames : StartItem(el)
    \/ StartEnclosure(SrcA)
    \/ \E a \in ChildAttrs : StartTranscript(a)
    \/ EndElement
    \/ Error
    \/ EndDocument

SpecFeed == InitFeed /\ [][NextFeed]_vars

Indices(table) == {i \in 1..Len(records) : records[i].rec.table = table}

C8_ErrorStops ==
    ghost.failed =>
        /\ pc = "stopped"
        /\ records = ghost.at_error
        /\ \A i \in 1..Len(records) :
              /\ records[i].rec.table = "nfitems" => records[i].item # OpenItem
              /\ records[i].rec.table = "newsfeeds" => records[i].channel # OpenChannel

\* the Error came inside the second item of a channel whose first item had
\* been emitted: that record stays and nothing is added
C8_Witness ==
    /\ ghost.failed
    /\ OpenItem = 2
    /\ OpenChannel = 1
    /\ state.item_has_valid_enclosure
    /\ Len(records) = 1
    /\ records[1].rec.table = "nfitems"

----------------------------------------------------------------------------
(* Ordinals: the itemid of the child records of the items of a channel     *)

MaxEventsOrdinal == 7

InitOrdinal == InitWith(MaxEventsOrdinal, FeedIds)

NextOrdinal ==
    \/ \E el \in ChannelNames : StartChannel(el)
    \/ \E el \in ItemNames : StartItem(el)
    \/ StartEnclosure(SrcA)
    \/ \E a \in ChildAttrs : StartTranscript(a)
    \/ \E a \in ValueAttrs : StartValue(a)
    \/ \E a \in RecipientAttrs : StartValueRecipient(a)
    \/ EndElement
    \/ EndDocument

SpecOrdinal == InitOrdinal /\ [][NextOrdinal]_vars

ChildTables == ItemTables \ {"nfitems"}

\* the nfitems records among the first n records that belong to the channel
\* epoch e and to an item other than it
EmittedBefore(e, it, n) ==
    Cardinality({m \in 1..n : /\ records[m].rec.table = "nfitems"
                              /\ records[m].epoch = e
                              /\ records[m].item # it})

----------------------------------------------------------------------------
(* Value blocks: which closed podcast:value block a scope emits            *)

MaxEventsValue == 7

ValueTypes == {Lightning, Hbd, <<"x">>}
Recipients == {[name |-> <<"n">>, type |-> <<"t">>, address |-> <<"a">>, split |-> <<"5">>],
               [name |-> <<"m">>, type |-> <<"t">>, address |-> <<"b">>, split |-> <<"5">>,
                fee |-> <<"Y", "e", "s">>]}

InitValue == InitWith(MaxEventsValue, {Some(7)})

NextValue ==
    \/ StartChannel("channel")
    \/ StartItem("item")
    \/ StartAtomLink(AtomOf(SrcA))
    \/ \E ty \in ValueTypes : StartValue([type |-> ty, method |-> <<"k">>])
    \/ \E a \in Recipients : StartValueRecipient(a)
    \/ EndElement
    \/ EndDocument

SpecValue == InitValue /\ [][NextValue]_vars

IsLightning(b) == b.code = 0
Last(seq) == seq[Len(seq)]
IsDirect(b) == b.direct
IsAfterSource(b) == b.after_src

\* the pending value of a scope agrees with the rule over the blocks cands:
\* none without blocks; the last block while none is lightning-typed (code 0);
\* else a lightning-typed one of them
PendingFollows(pending, cands) ==
    IF cands = <<>> THEN pending = None
    ELSE IF \A k \in 1..Len(cands) : ~IsLightning(cands[k])
    THEN pending = Some(<<Last(cands).code, Last(cands).block>>)
    ELSE /\ pending # None
         /\ pending[1][1] = 0
         /\ \E k \in 1..Len(cands) : IsLightning(cands[k]) /\ pending[1][2] = cands[k].block

\* the value record of table emitted at the same end event as records[i]
ValueEmittedWith(i, table) ==
    LET js == {j \in 1..Len(records) :
                  /\ records[j].rec.table = table
                  /\ records[j].at = records[i].at
                  /\ records[j].item = records[i].item
                  /\ records[j].channel = records[i].channel
                  /\ records[j].epoch = records[i].epoch}
    IN  IF js = {} THEN None
        ELSE LET j == CHOOSE j \in js : TRUE
             IN  Some(<<records[j].rec.type, records[j].rec.value_block>>)


IsLightningNamed(b) == to_ascii_lowercase(Trim(b.block.model.type)) = Lightning

\* C4: a scope whose blocks hold more than one block of type lightning emits
\* the first of them
C4_FirstLightningWins ==
    \A i \in 1..Len(records) :
        /\ records[i].rec.table = "nfitems" =>
              LET ln == SelectSeq(SelectSeq(records[i].item_blocks, IsAfterSource),
                                  IsLightningNamed)
              IN  Len(ln) > 1 => ValueEmittedWith(i, "nfitem_value") = Some(<<0, ln[1].block>>)
        /\ records[i].rec.table = "newsfeeds" =>
              LET ln == SelectSeq(records[i].chan_blocks, IsLightningNamed)
              IN  Len(ln) > 1 => ValueEmittedWith(i, "nfvalue") = Some(<<0, ln[1].block>>)


----------------------------------------------------------------------------
(* Recipient cap: one podcast:value with many recipients                   *)

\* start events of a document with one channel and one value block with
\* recipients: two of them open the channel and the value block, the others
\* are recipients
MaxEventsCap == 104

RECURSIVE DecOf(_)
\* the decimal digits of n
DecOf(n) ==
    LET d == <<"0", "1", "2", "3", "4", "5", "6", "7", "8", "9">>
    IN  IF n < 10 THEN <<d[n + 1]>> ELSE Append(DecOf(n \div 10), d[(n % 10) + 1])

\* the k-th recipient of a value block is named and split by k
NthRecipient(k) ==
    [name |-> DecOf(k), type |-> <<"t">>, address |-> <<"a">> \o DecOf(k), split |-> DecOf(k)]

InitCap == InitWith(MaxEventsCap, {Some(7)})

NextCap ==
    \/ ghost.epoch = 0 /\ StartChannel("channel")
    \/ ghost.chan_blocks = <<>> /\ ghost.recips = <<>>
            /\ StartValue([type |-> Lightning, method |-> <<"k">>])
    \/ StartValueRecipient(NthRecipient(Len(ghost.recips) + 1))
    \/ EndElement
    \/ EndDocument

SpecCap == InitCap /\ [][NextCap]_vars

\* the destination object of a recipient written with the attributes a
DestinationOf(a) ==
    [name |-> a.name, type |-> a.type, address |-> a.address,
     split |-> [neg |-> FALSE, digits |-> a.split],
     fee |-> None, customKey |-> None, customValue |-> None]

\* C5: the value block of an emitted nfvalue record is built from a closed
\* podcast:value of n recipients, has min(n, 100) destinations, and they are
\* its first min(n, 100) recipients in document order
C5_FirstHundredRecipients ==
    \A i \in 1..Len(records) :
        records[i].rec.table = "nfvalue" =>
            \E k \in 1..Len(records[i].chan_blocks) :
                LET b == records[i].chan_blocks[k]
                    dest == records[i].rec.value_block.destinations
                    n == Len(b.written)
                IN  /\ Len(dest) = (IF n <= 100 THEN n ELSE 100)
                    /\ \A m \in 1..Len(dest) : dest[m] = DestinationOf(b.written[m])

\* a value block written with more than 100 recipients was emitted
C5_Witness ==
    \E i \in 1..Len(records) :
        /\ records[i].rec.table = "nfvalue"
        /\ Len(records[i].chan_blocks) = 1
        /\ Len(records[i].chan_blocks[1].written) > 100
        /\ Len(records[i].rec.value_block.destinations) = 100


----------------------------------------------------------------------------
(* Item digest: the running digest of the items of a channel               *)

MaxEventsHash == 5

InitHash == InitWith(MaxEventsHash, {Some(7)})

NextHash ==
    \/ StartChannel("channel")
    \/ StartItem("item")
    \/ \E src \in {SrcA, SrcB} : StartEnclosure(src)
    \/ \E a \in ChildAttrs : StartTranscript(a)
    \/ \E a \in PersonAttrs : StartPerson(a)
    \/ StartField("title")
    \/ Characters(<<"g">>)
    \/ EndElement
    \/ EndDocument

SpecHash == InitHash /\ [][NextHash]_vars

\* C10: the podcast_chapters column of a newsfeeds record is the digest of the
\* concatenation of the trimmed 6-tuples of the items emitted in that channel,
\* in the order of their emission, and of nothing else
C10_DigestOfItemTuples ==
    \A i \in 1..Len(records) :
        records[i].rec.table = "newsfeeds" =>
            records[i].rec.podcast_chapters = Md5Hex(Flatten(records[i].tuples))


----------------------------------------------------------------------------
(* Channel hash: the digest of the newsfeeds record as a function of the   *)
(* channel fields at the channel's end event                               *)

\* how many channels are finalized
MaxChannelsChash == 2

\* two tuples of (title, link, language, generator, itunes author, owner
\* name, owner email) that differ in two fields and concatenate alike
ChashBases ==
    { << <<"a", "b">>, EMPTY, <<"c">>, <<"d">>, <<"e">>, <<"f">>, <<"g">> >>,
      << <<"a">>, <<"b">>, <<"c">>, <<"d">>, <<"e">>, <<"f">>, <<"g">> >> }

ChashValues == { <<"x">>, <<SP, "x">> }

\* the bases and every tuple that differs from a base in one field
ChashInputs ==
    ChashBases \cup
    { [b EXCEPT ![k] = v] : b \in ChashBases, k \in 1..7, v \in ChashValues }

Descriptions == { EMPTY, <<"d">> }

\* a whole channel element: its start event, the text events that leave the
\* values parts and description in the channel fields, and its end event
HashChannel(parts, description) ==
    /\ pc = "parsing"
    /\ stack = <<>>
    /\ nev > 0
    /\ LET s == [channel_on_start(state) EXCEPT
                    !.channel_title = parts[1],
                    !.channel_link = parts[2],
                    !.channel_language = parts[3],
                    !.channel_generator = parts[4],
                    !.channel_itunes_author = parts[5],
                    !.channel_itunes_owner_name = parts[6],
                    !.channel_itunes_owner_email = parts[7],
                    !.channel_description = description]
           ret == channel_on_end(feed_id, s)
       IN  /\ state' = ret.st
           /\ records' = records \o Stamp(ret.out, "channel")
    /\ nev' = nev - 1
    /\ UNCHANGED <<feed_id, pc, stack, ghost, GLOBAL_COUNTER, tasks>>

InitChash == InitWith(MaxChannelsChash, {Some(7)})

NextChash ==
    \/ \E parts \in ChashInputs, d \in Descriptions : HashChannel(parts, d)
    \/ EndDocument

SpecChash == InitChash /\ [][NextChash]_vars

\* the seven resolved values of a newsfeeds record
SevenOf(rec) ==
    << rec.title, rec.url, rec.language, rec.generator, rec.itunes_author,
       rec.itunes_owner_name, rec.itunes_owner_email >>

NewsfeedsIndices == {i \in 1..Len(records) : records[i].rec.table = "newsfeeds"}

\* C11: two newsfeeds records with the same seven resolved values carry the
\* same chash whatever else differs, and two records whose resolved values
\* differ in exactly one of the seven fields carry different chash values
C11_ChashOfSevenFields ==
    \A i, j \in NewsfeedsIndices :
        LET a == SevenOf(records[i].rec)
            b == SevenOf(records[j].rec)
        IN  /\ a = b => records[i].rec.chash = records[j].rec.chash
            /\ Cardinality({k \in 1..7 : a[k] # b[k]}) = 1
                  => records[i].rec.chash # records[j].rec.chash

\* two channels with the same seven values and different descriptions were
\* emitted with the same chash
C11_Witness ==
    \E i, j \in NewsfeedsIndices :
        /\ SevenOf(records[i].rec) = SevenOf(records[j].rec)
        /\ records[i].rec.content # records[j].rec.content
        /\ records[i].rec.chash = records[j].rec.chash


----------------------------------------------------------------------------
(* Durations: the itunes_duration of an emitted item                       *)

MaxEventsDuration == 5

DurationTexts ==
    { <<"8", "3">>, <<"0", "1", ":", "0", "2">>, <<"1", ":", "0", "1", ":", "0", "2">>,
      <<"x">> }

InitDuration == InitWith(MaxEventsDuration, {Some(7)})

NextDuration ==
    \/ StartItem("item")
    \/ StartEnclosure(SrcA)
    \/ StartDuration
    \/ \E data \in DurationTexts : Characters(data)
    \/ EndElement
    \/ EndDocument

SpecDuration == InitDuration /\ [][NextDuration]_vars

IsNumber(s) == s # <<>> /\ \A i \in 1..Len(s) : s[i] \in Digits

\* the duration C12 states for the text of an item's itunes:duration element
\* (None: the item has no such element)
StatedDuration(text) ==
    IF text = None THEN 0
    ELSE LET t == Trim(text[1])
             parts == SplitColon(t)
         IN  IF IsNumber(t) THEN DigitsToInt(t)
             ELSE IF Len(parts) = 2 /\ IsNumber(parts[1]) /\ IsNumber(parts[2])
             THEN DigitsToInt(parts[1]) * 60 + DigitsToInt(parts[2])
             ELSE IF Len(parts) = 3 /\ \A k \in 1..3 : IsNumber(parts[k])
             THEN DigitsToInt(parts[1]) * 3600 + DigitsToInt(parts[2]) * 60
                     + DigitsToInt(parts[3])
             ELSE 0

\* C12: the itunes_duration of every nfitems record is the number of seconds
\* its duration text stands for: the integer, the total of mm:ss or hh:mm:ss,
\* and 0 for any other, empty or absent text
C12_DurationOfText ==
    \A i \in 1..Len(records) :
        records[i].rec.table = "nfitems" =>
            records[i].rec.itunes_duration = StatedDuration(records[i].duration_text)


----------------------------------------------------------------------------
(* Alternate enclosures: duration, chapters and transcript elements nested *)
(* inside a podcast:alternateEnclosure of an item                          *)

MaxEventsAlternate == 7

AlternateTexts == { <<"8", "3">>, <<"3", "2", "6", "9">> }

InitAlternate == InitWith(MaxEventsAlternate, {Some(7)})

NextAlternate ==
    \/ StartItem("item")
    \/ StartEnclosure(SrcA)
    \/ StartDuration
    \/ StartAlternateEnclosure
    \/ StartNested("itunes:duration", NoAttrs)
    \/ \E el \in {"podcast:chapters", "podcast:transcript"}, a \in ChildAttrs : StartNested(el, a)
    \/ \E a \in ChildAttrs : StartTranscript(a)
    \/ \E a \in ChildAttrs : StartChapters(a)
    \/ \E data \in AlternateTexts : Characters(data)
    \/ EndElement
    \/ EndDocument

SpecAlternate == InitAlternate /\ [][NextAlternate]_vars

\* C13: an item whose own itunes:duration element holds one of the texts is
\* emitted with the duration of that text, whatever itunes:duration elements
\* its alternate enclosures hold and wherever they stand
C13_AlternateKeepsDuration ==
    \A i \in 1..Len(records) :
        /\ records[i].rec.table = "nfitems"
        /\ records[i].duration_text \in {Some(t) : t \in AlternateTexts}
        => records[i].rec.itunes_duration = StatedDuration(records[i].duration_text)

\* C14: no nfitem_chapters and no nfitem_transcripts record is emitted at the
\* end of an element that stands inside a podcast:alternateEnclosure
C14_NoRecordFromAlternate ==
    \A i \in 1..Len(records) :
        records[i].rec.table \in {"nfitem_chapters", "nfitem_transcripts"}
            => records[i].parent # "podcast:alternateEnclosure"


----------------------------------------------------------------------------
(* Update frequency: calculate_update_frequency over lists of pubdates     *)

\* the longest list of pubdates
MaxPubdates == 3

Windows == {5, 10, 20, 40, 100, 200, 400}

Nows == {1700000000, 7 * DaySeconds}

\* pubdates around now: now, a day ago, the bad-date value 0, and for every
\* window its far edge and the second after it
PubdatesAround(now) ==
    {now, now - DaySeconds, 0}
        \cup {now - w * DaySeconds : w \in Windows}
        \cup {now - w * DaySeconds + 1 : w \in Windows}

RECURSIVE SeqsUpTo(_, _)
SeqsUpTo(S, n) ==
    IF n = 0 THEN {<<>>}
    ELSE LET shorter == SeqsUpTo(S, n - 1)
         IN  shorter \cup {Append(q, x) : q \in {r \in shorter : Len(r) = n - 1}, x \in S}

\* the channel's pubdate list and the clock are the inputs
InitFrequency ==
    /\ \E now \in Nows :
          /\ ghost = [GhostInit EXCEPT !.now = now]
          /\ \E dates \in SeqsUpTo(PubdatesAround(now), MaxPubdates) :
                state = [ParserStateDefault EXCEPT !.item_pubdates = dates]
    /\ records = <<>>
    /\ feed_id = Some(7)
    /\ pc = "parsing"
    /\ stack = <<>>
    /\ nev = 0
    /\ GLOBAL_COUNTER = 0
    /\ tasks = <<>>

\* write_newsfeeds computes the update frequency of the channel (outputs.rs 87)
UpdateFrequency ==
    /\ pc = "parsing"
    /\ records = <<>>
    /\ records' = << [rec |-> [table |-> "update_frequency",
                               update_frequency |->
                                   calculate_update_frequency(state.item_pubdates, ghost.now)],
                      pubdates |-> state.item_pubdates,
                      now |-> ghost.now] >>
    /\ UNCHANGED <<state, feed_id, pc, stack, nev, ghost, GLOBAL_COUNTER, tasks>>

NextFrequency == UpdateFrequency \/ (records # <<>> /\ EndDocument)

SpecFrequency == InitFrequency /\ [][NextFrequency]_vars

\* how many of the pubdates are less than days days old
Within(pubdates, now, days) ==
    Cardinality({i \in 1..Len(pubdates) : now - pubdates[i] < days * DaySeconds})

\* the decision list of C15
StatedFrequency(pubdates, now) ==
    IF Within(pubdates, now, 400) = 0 THEN 9
    ELSE IF Within(pubdates, now, 200) = 0 THEN 8
    ELSE IF Within(pubdates, now, 100) = 0 THEN 7
    ELSE LET hit == {w \in Windows \ {400} : Within(pubdates, now, w) > 1}
         IN  IF hit # {}
             THEN LET w == CHOOSE x \in hit : \A y \in hit : x <= y
                  IN  CASE w = 5 -> 1 [] w = 10 -> 2 [] w = 20 -> 3
                        [] w = 40 -> 4 [] w = 100 -> 5 [] w = 200 -> 6
             ELSE IF Within(pubdates, now, 400) >= 1 THEN 7 ELSE 0

\* C15: the update frequency computed for a list of pubdates at a time now is
\* the class the decision list gives
C15_FrequencyIsDecisionList ==
    \A i \in 1..Len(records) :
        records[i].rec.table = "update_frequency" =>
            records[i].rec.update_frequency
                = StatedFrequency(records[i].pubdates, records[i].now)

\* two items dated now and one day ago were given class 1
C15_Witness ==
    \E i \in 1..Len(records) :
        /\ records[i].rec.table = "update_frequency"
        /\ records[i].pubdates = <<records[i].now, records[i].now - DaySeconds>>
        /\ records[i].rec.update_frequency = 1


----------------------------------------------------------------------------
(* C16: compound categories (SpecCategory).  One document per behaviour:   *)
(* a channel whose itunes:category elements carry a block of taxonomy      *)
(* names set somewhere among words of the split pairs.                     *)

MaxFill == 8

\* the first n names of the taxonomy
Fillers(n) == [i \in 1..n |-> CATEGORY_LOOKUP[i + 1]]

\* the words of each pair in both orders, one word alone and one repeated;
\* a word in another case between blanks; the words of two pairs
WordLists ==
    UNION { { <<Compounds[k].a, Compounds[k].b>>, <<Compounds[k].b, Compounds[k].a>>,
              <<Compounds[k].a>>, <<Compounds[k].b, Compounds[k].b, Compounds[k].a>> } :
            k \in 1..Len(Compounds) }
    \cup { <<>>, << <<SP, "V", "i", "d", "e", "o", SP>>, Games >>,
           <<How, To, Video, Games>>, <<True, Video, Crime, Games>> }

\* a word list with up to MaxFill taxonomy names set somewhere in it
CategoryInputs ==
    UNION { { SubSeq(w, 1, p) \o Fillers(n) \o SubSeq(w, p + 1, Len(w)) :
                n \in 0..MaxFill, p \in 0..Len(w) } :
            w \in WordLists }

\* the two forms of a category element: <itunes:category text="t"/> and
\* <itunes:category>t</itunes:category>
CategoryForms == {"attribute", "text"}

CategoryElement(s, token, form, fid) ==
    IF form = "attribute"
    THEN on_end_element("itunes:category", fid,
                        on_start_element("itunes:category", [text |-> token], s)).st
    ELSE on_end_element("itunes:category", fid,
                        on_characters(token,
                                      on_start_element("itunes:category", NoAttrs, s))).st

RECURSIVE CategoryElements(_, _, _, _)
CategoryElements(s, tokens, form, fid) ==
    IF tokens = <<>> THEN s
    ELSE LET next == CategoryElement(s, Head(tokens), form, fid)
         IN  IF next = s THEN CategoryElements(s, Tail(tokens), form, fid)
             ELSE CategoryElements(next, Tail(tokens), form, fid)

\* a whole channel element: its start event, one category element for each
\* token and its end event
MapCategories(tokens, form) ==
    /\ pc = "parsing"
    /\ stack = <<>>
    /\ nev > 0
    /\ LET s == CategoryElements(on_start_element("channel", NoAttrs, state),
                                 tokens, form, feed_id)
           ret == on_end_element("channel", feed_id, s)
       IN  /\ state' = ret.st
           /\ records' = records \o [i \in 1..Len(ret.out) |->
                                        [rec |-> ret.out[i], tokens |-> tokens]]
    /\ nev' = nev - 1
    /\ UNCHANGED <<feed_id, pc, stack, ghost, GLOBAL_COUNTER, tasks>>

InitCategory == InitWith(1, {Some(7)})

NextCategory ==
    \/ nev > 0 /\ \E tokens \in CategoryInputs, form \in CategoryForms :
                      MapCategories(tokens, form)
    \/ EndDocument

SpecCategory == InitCategory /\ [][NextCategory]_vars

\* the split pairs and the taxonomy codes of their compounds
SplitPairs ==
    << [a |-> Video, b |-> Games, code |-> 52],
       [a |-> True, b |-> Crime, code |-> 103],
       [a |-> After, b |-> Shows, code |-> 106],
       [a |-> Self, b |-> Improvement, code |-> 25],
       [a |-> How, b |-> To, code |-> 22] >>

\* the word is one of the tokens, whatever its case and surrounding blanks
Present(tokens, w) == \E i \in 1..Len(tokens) : to_ascii_lowercase(Trim(tokens[i])) = w

PairPresent(tokens, k) ==
    Present(tokens, SplitPairs[k].a) /\ Present(tokens, SplitPairs[k].b)

\* the code is in one of the catid slots of an nfcategories record of the list
InSlots(tokens, code) ==
    \E j \in 1..Len(records) :
        /\ records[j].rec.table = "nfcategories"
        /\ records[j].tokens = tokens
        /\ \E slot \in 1..10 : records[j].rec.catid[slot] = code

\* the entries mapped ahead of the compound of pair k that resolve to a code:
\* the tokens, adjacent repeats counted once, and the compounds of the pairs
\* listed before k
Ahead(tokens, k) ==
    LET listed == Dedup([i \in 1..Len(tokens) |-> Trim(tokens[i])])
    IN  Cardinality({i \in 1..Len(listed) :
                        CategoryIndex(to_ascii_lowercase(listed[i])) # None})
        + Cardinality({h \in 1..(k - 1) : PairPresent(tokens, h)})

MappedLists == {records[i].tokens : i \in 1..Len(records)}

\* C16 as stated: whenever both words of a split pair are among the tokens of
\* a channel, the code of the compound is in one of the catid slots of the
\* channel's nfcategories record
C16_CompoundInSlots ==
    \A tokens \in MappedLists : \A k \in 1..Len(SplitPairs) :
        PairPresent(tokens, k) => InSlots(tokens, SplitPairs[k].code)

\* C16 amended: whenever both words of a split pair are among the tokens of a
\* channel and fewer than 8 of the entries mapped ahead of the compound
\* resolve to a code, the code of the compound is in one of the catid slots of
\* the channel's nfcategories record
C16_CompoundInSlotsUnderCap ==
    \A tokens \in MappedLists : \A k \in 1..Len(SplitPairs) :
        PairPresent(tokens, k) /\ Ahead(tokens, k) < 8
            => InSlots(tokens, SplitPairs[k].code)

\* both words of a pair came after 7 resolving names and the compound's code
\* is in a slot
C16_Witness ==
    \E tokens \in MappedLists : \E k \in 1..Len(SplitPairs) :
        /\ PairPresent(tokens, k)
        /\ Ahead(tokens, k) = 7
        /\ InSlots(tokens, SplitPairs[k].code)


----------------------------------------------------------------------------
(* C17: the canonical value-block string (SpecCanon).  Each step is a      *)
(* whole channel element holding one podcast:value; the attributes of an   *)
(* element are written in some order.                                      *)

MaxValuesCanon == 2

At(name, value) == [name |-> name, value |-> value]

\* attributes.iter().find(|a| a.name.local_name == n): the attributes by name
AttrsOf(list) ==
    [n \in {list[i].name : i \in 1..Len(list)} |->
        list[CHOOSE i \in 1..Len(list) :
                list[i].name = n /\ \A j \in 1..(i - 1) : list[j].name # n].value]

Reverse(list) == [i \in 1..Len(list) |-> list[Len(list) + 1 - i]]

ModelAts == << At("type", Lightning), At("method", <<"k">>), At("suggested", <<"1">>) >>
RecipientA ==
    << At("name", <<"a">>), At("type", <<"n">>), At("address", <<"x">>),
       At("split", <<"9", "0">>) >>
RecipientB ==
    << At("name", <<"b">>), At("type", <<"n">>), At("address", <<"y">>),
       At("split", <<"1", "0">>), At("fee", <<"t","r","u","e">>),
       At("customKey", <<"7">>), At("customValue", <<"q", DQ>>) >>

ValueAttrLists == { ModelAts, Reverse(ModelAts), SubSeq(ModelAts, 1, 2) }
RecipientLists == { <<RecipientA>>, <<RecipientA, RecipientB>>,
                    <<Reverse(RecipientA), Reverse(RecipientB)>>,
                    <<RecipientB, RecipientA>> }

RECURSIVE RecipientElements(_, _, _)
RecipientElements(s, lists, fid) ==
    IF lists = <<>> THEN s
    ELSE RecipientElements(
            on_end_element("podcast:valueRecipient", fid,
                           on_start_element("podcast:valueRecipient",
                                            AttrsOf(Head(lists)), s)).st,
            Tail(lists), fid)

\* an nfvalue record with the string of its block, the value the string is
\* the text of and the attributes as they were written
Canonical(rec, order, btree, vattrs, recipients) ==
    [rec |-> rec,
     json |-> canonicalize_json(value_block_json(rec.value_block, order, btree)),
     text |-> canonical_json_string(value_block_json(rec.value_block, order, btree)),
     written |-> [value |-> vattrs, recipients |-> recipients]]

\* the events of <channel><podcast:value ..><podcast:valueRecipient ../>..
\* </podcast:value></channel>
ValueChannelEvents(vattrs, recipients) ==
    LET s1 == on_start_element("podcast:value", AttrsOf(vattrs),
                               on_start_element("channel", NoAttrs, state))
        s2 == RecipientElements(s1, recipients, feed_id)
        s3 == on_end_element("podcast:value", feed_id, s2).st
    IN  on_end_element("channel", feed_id, s3)

\* one channel element holding one podcast:value; order and btree are what the build leaves open: the iteration
\* order of the model HashMap and the kind of serde_json::Map
ValueChannel(vattrs, recipients, order, btree) ==
    /\ pc = "parsing"
    /\ stack = <<>>
    /\ nev > 0
    /\ \E ret \in {ValueChannelEvents(vattrs, recipients)} :
           /\ state' = ret.st
           /\ records' = records \o
                [i \in 1..Len(ret.out) |->
                    IF ret.out[i].table = "nfvalue"
                    THEN Canonical(ret.out[i], order, btree, vattrs, recipients)
                    ELSE [rec |-> ret.out[i]]]
    /\ nev' = nev - 1
    /\ UNCHANGED <<feed_id, pc, stack, ghost, GLOBAL_COUNTER, tasks>>

InitCanon == InitWith(MaxValuesCanon, {Some(7)})

NextCanon ==
    \/ nev > 0 /\ \E vattrs \in ValueAttrLists, recipients \in RecipientLists :
                    \E order \in HashOrders({vattrs[i].name : i \in 1..Len(vattrs)}),
                       btree \in BOOLEAN :
                        ValueChannel(vattrs, recipients,
                                     [i \in 1..Len(order) |->
                                         IF order[i] = "type" THEN KeyType
                                         ELSE IF order[i] = "method" THEN KeyMethod
                                         ELSE KeySuggested],
                                     btree)
    \/ EndDocument

SpecCanon == InitCanon /\ [][NextCanon]_vars

ValueIndices == {i \in 1..Len(records) : records[i].rec.table = "nfvalue"}

\* the keys of every object of the value are in ascending order
RECURSIVE KeysAscending(_)
KeysAscending(value) ==
    CASE value.t = "object" ->
            /\ \A i \in 1..(Len(value.v) - 1) : StrLess(value.v[i].key, value.v[i + 1].key)
            /\ \A i \in 1..Len(value.v) : KeysAscending(value.v[i].value)
      [] value.t = "array" -> \A i \in 1..Len(value.v) : KeysAscending(value.v[i])
      [] OTHER -> TRUE

\* the value of the member key of an object
MemberOf(object, key) ==
    object.v[CHOOSE i \in 1..Len(object.v) : object.v[i].key = key].value

\* the attributes of an element whatever the order they are written in
AttrSet(list) == {list[i] : i \in 1..Len(list)}

SameButOrder(w1, w2) ==
    /\ AttrSet(w1.value) = AttrSet(w2.value)
    /\ Len(w1.recipients) = Len(w2.recipients)
    /\ \A k \in 1..Len(w1.recipients) : AttrSet(w1.recipients[k]) = AttrSet(w2.recipients[k])

\* C17: the value-block string is the text of a value whose objects all have
\* their keys in lexicographic order and whose destinations are in recipient
\* order; canonicalizing that value again leaves it unchanged; two
\* podcast:value elements that differ only in the order their attributes are
\* written in have the same string
C17_CanonicalBlock ==
    \A i \in ValueIndices :
        LET json == records[i].json
            dests == MemberOf(json, KeyDestinations).v
            recips == records[i].written.recipients
        IN  /\ records[i].text = to_string(json)
            /\ KeysAscending(json)
            /\ Len(dests) = Len(recips)
            /\ \A k \in 1..Len(dests) :
                    MemberOf(dests[k], KeyName) = JString(AttrsOf(recips[k]).name)
            /\ canonicalize_json(json) = json
            /\ \A j \in ValueIndices :
                    SameButOrder(records[i].written, records[j].written)
                        => records[i].text = records[j].text

\* two blocks of two recipients, the second with all seven attributes, were
\* written with the attributes in different orders and have the same string
C17_Witness ==
    \E i, j \in ValueIndices :
        /\ records[i].written # records[j].written
        /\ SameButOrder(records[i].written, records[j].written)
        /\ Len(records[i].written.recipients) = 2
        /\ Len(records[i].written.recipients[2]) = 7
        /\ records[i].text = records[j].text


----------------------------------------------------------------------------
(* C18: the guessed enclosure type (SpecType).  Items with one enclosure   *)
(* element each, over URLs with and without a media extension and types    *)
(* that are absent, empty, blank or explicit.                              *)

MaxEventsType == 4

Extensions ==
    { <<".","m","p","3">>, <<".","m","p","e","g">>, <<".","m","4","a">>, <<".","m","p","4">>,
      <<".","o","g","g">>, <<".","o","g","a">>, <<".","w","a","v">>, <<".","w","e","b","m">>,
      <<".","f","l","a","c">>, <<".","m","4","v">>, <<".","a","v","i">>, <<".","m","o","v">>,
      <<".","w","m","v">>, <<".","t","x","t">>, EMPTY }

\* the extension at the end of the URL, before a query, and two extensions
TypeUrls ==
    { Https \o <<"a">> \o x : x \in Extensions }
    \cup { Https \o <<"a", ".", "o", "g", "g", "?", "q">>,
          Https \o <<"a", ".", "m", "p", "4", ".", "m", "p", "3">> }

TypeSources ==
    { [url |-> u, length |-> <<"1">>] : u \in TypeUrls }
    \cup { [url |-> u, length |-> <<"1">>, type |-> ty] :
             u \in TypeUrls, ty \in {EMPTY, <<SP>>, <<"x">>} }

InitType == InitWith(MaxEventsType, {Some(7)})

NextType ==
    \/ StartItem("item")
    \/ \E src \in TypeSources : StartEnclosure(src)
    \/ EndElement
    \/ EndDocument

SpecType == InitType /\ [][NextType]_vars

\* str::ends_with
EndsWith(s, p) == Len(s) >= Len(p) /\ SubSeq(s, Len(s) - Len(p) + 1, Len(s)) = p

AudioWebm == <<"a","u","d","i","o","/","w","e","b","m">>
AudioFlac == <<"a","u","d","i","o","/","f","l","a","c">>

\* the guess as stated: by the suffix of the URL, audio/mpeg by default
StatedGuess(url) ==
    IF EndsWith(url, <<".","m","p","3">>) \/ EndsWith(url, <<".","m","p","e","g">>) THEN AudioMpeg
    ELSE IF EndsWith(url, <<".","m","4","a">>) \/ EndsWith(url, <<".","m","p","4">>) THEN AudioMp4
    ELSE IF EndsWith(url, <<".","o","g","g">>) \/ EndsWith(url, <<".","o","g","a">>) THEN AudioOgg
    ELSE IF EndsWith(url, <<".","w","a","v">>) THEN AudioWav
    ELSE IF EndsWith(url, <<".","w","e","b","m">>) THEN AudioWebm
    ELSE IF EndsWith(url, <<".","f","l","a","c">>) THEN AudioFlac
    ELSE AudioMpeg

\* the extensions in the order they are looked for, each with its type
GuessTable ==
    << << <<".","m","4","v">>, VideoMp4 >>, << <<".","m","p","4">>, VideoMp4 >>,
       << <<".","a","v","i">>, VideoAvi >>, << <<".","m","o","v">>, VideoQuicktime >>,
       << <<".","m","p","3">>, AudioMpeg >>, << <<".","m","4","a">>, AudioMp4 >>,
       << <<".","w","a","v">>, AudioWav >>, << <<".","o","g","g">>, AudioOgg >>,
       << <<".","w","m","v">>, VideoWmv >> >>

\* the type of the first extension of the table that occurs anywhere in the
\* URL, the empty string when none does
TableGuess(url) ==
    LET hits == {k \in 1..Len(GuessTable) : Contains(url, GuessTable[k][1])}
    IN  IF hits = {} THEN EMPTY
        ELSE GuessTable[CHOOSE k \in hits : \A h \in hits : k <= h][2]

ItemIndices == {i \in 1..Len(records) : records[i].rec.table = "nfitems"}

\* C18 as stated: an item whose enclosure has an empty or absent type is
\* emitted with the type of the URL's suffix (audio/mpeg when the suffix is
\* not a known one), and an explicit non-empty type is emitted as it is
C18_TypeGuessedFromSuffix ==
    \A i \in ItemIndices :
        LET src == records[i].first[1]
        IN  records[i].rec.enclosure_type =
                IF src.type = EMPTY THEN StatedGuess(src.url) ELSE src.type

\* C18 amended: an item whose enclosure has an empty, blank or absent type
\* is emitted with the type of the first of .m4v, .mp4, .avi, .mov, .mp3,
\* .m4a, .wav, .ogg, .wmv that occurs anywhere in the URL, and with the empty
\* string when none occurs; an explicit type that is not blank is emitted as
\* it is
C18_TypeGuessedFromTable ==
    \A i \in ItemIndices :
        LET src == records[i].first[1]
        IN  records[i].rec.enclosure_type =
                IF Trim(src.type) = EMPTY THEN TableGuess(src.url) ELSE Trim(src.type)

\* an item without a type was emitted with a guessed type and one with an
\* explicit type and a known extension with its explicit type
C18_Witness ==
    /\ \E i \in ItemIndices :
          records[i].first[1].type = EMPTY /\ records[i].rec.enclosure_type = AudioOgg
    /\ \E i \in ItemIndices :
          /\ records[i].first[1].type = <<"x">>
          /\ Contains(records[i].first[1].url, <<".","m","p","3">>)
          /\ records[i].rec.enclosure_type = <<"x">>


----------------------------------------------------------------------------
(* C19: legacy column widths (SpecWidth).  Items with one enclosure and    *)
(* soundbites and persons whose text and attributes are at and one past    *)
(* the widths.                                                             *)

MaxEventsWidth == 4

WidthTexts == { Rep("x", 2), Rep("x", 128), Rep("x", 129), Rep("x", 500), Rep("x", 501) }

WidthPersonAttrs ==
    { [role |-> Rep("R", 128), group |-> Rep("G", 128),
       img |-> Https \o Rep("i", 760), href |-> Https \o Rep("h", 760)],
      [role |-> Rep("R", 129), group |-> <<"g">>, img |-> EMPTY, href |-> EMPTY],
      [role |-> <<"r">>, group |-> Rep("G", 129), img |-> EMPTY, href |-> EMPTY],
      [role |-> <<"r">>, group |-> <<"g">>, img |-> Https \o Rep("i", 761), href |-> EMPTY],
      [role |-> <<"r">>, group |-> <<"g">>, img |-> EMPTY, href |-> Https \o Rep("h", 761)] }

InitWidth == InitWith(MaxEventsWidth, {Some(7)})

NextWidth ==
    \/ StartItem("item")
    \/ StartEnclosure(SrcA)
    \/ \E a \in SoundbiteAttrs : StartSoundbite(a)
    \/ \E a \in WidthPersonAttrs : StartPerson(a)
    \/ \E data \in WidthTexts : Characters(data)
    \/ EndElement
    \/ EndDocument

SpecWidth == InitWidth /\ [][NextWidth]_vars

\* the emitted value is the written one, trimmed, cut to the width when longer
CutTo(emitted, written, width) == emitted = Take(Trim(written), width)

\* C19: every emitted field is at most as wide as its column (item title
\* 1024, guid 740, enclosure URL 738, enclosure type 128, channel language 8,
\* channel podcast_owner 255, soundbite title 500, person name, role and
\* group 128, person img and href 768), and a soundbite's or person's longer
\* input is cut to exactly the width
C19_ColumnWidths ==
    \A i \in 1..Len(records) :
        LET rec == records[i].rec
        IN  CASE rec.table = "nfitems" ->
                    /\ Len(rec.title) <= 1024
                    /\ Len(rec.guid) <= 740
                    /\ Len(rec.enclosure_url) <= 738
                    /\ Len(rec.enclosure_type) <= 128
              [] rec.table = "newsfeeds" ->
                    /\ Len(rec.language) <= 8
                    /\ Len(rec.podcast_owner) <= 255
              [] rec.table = "nfitem_soundbites" ->
                    CutTo(rec.title, records[i].entity[1].text, 500)
              [] rec.table = "nfitem_persons" ->
                    LET attrs == records[i].entity[1].attrs
                    IN  /\ CutTo(rec.name, records[i].entity[1].text, 128)
                        /\ CutTo(rec.role, AttrStr(attrs, "role"), 128)
                        /\ CutTo(rec.grp, AttrStr(attrs, "group"), 128)
                        /\ CutTo(rec.img, AttrStr(attrs, "img"), 768)
                        /\ CutTo(rec.href, AttrStr(attrs, "href"), 768)
              [] OTHER -> TRUE


----------------------------------------------------------------------------
(* C20: the enclosure length (SpecLength).  Items whose enclosure is an    *)
(* atom:link of rel enclosure, over lengths that are integers, absent,     *)
(* empty, not a number and out of the range of an i64.                     *)

MaxEventsLength == 4

Lengths == { <<"1", "2", "3">>, <<SP, "7">>, <<"0">>, EMPTY, <<"a", "b", "c">>,
             <<"1", ".", "5">>,
             <<"9","9","9","9","9","9","9","9","9","9","9","9","9","9","9","9","9","9","9">> }

LengthLinks ==
    { [rel |-> "enclosure", href |-> Https \o <<"a">>, type |-> <<"x">>] }
    \cup { [rel |-> "enclosure", href |-> Https \o <<"a">>, type |-> <<"x">>, length |-> n] :
             n \in Lengths }

InitLength == InitWith(MaxEventsLength, {Some(7)})

NextLength ==
    \/ StartItem("atom:entry")
    \/ \E a \in LengthLinks : StartAtomLink(a)
    \/ EndElement
    \/ EndDocument

SpecLength == InitLength /\ [][NextLength]_vars

\* the length as stated: the integer the text is, 0 when it is none in range
StatedLength(text) ==
    IF ParseI64(Trim(text)) # None THEN ParseI64(Trim(text)) ELSE Some(ZeroInt)

\* C20: the enclosure_length of an emitted item is the integer its
\* enclosure's length attribute is when that is an integer in range, and 0
\* when the attribute is missing, unparsable or out of range; it is never null
C20_LengthOrZero ==
    \A i \in 1..Len(records) :
        records[i].rec.table = "nfitems" =>
            /\ records[i].rec.enclosure_length # None
            /\ records[i].rec.enclosure_length = StatedLength(records[i].first[1].length)


----------------------------------------------------------------------------
(* Atom documents.  The tokenizer hands every element name over as a       *)
(* prefix, a namespace and a local name; get_prefixed_name                 *)
(* (src/src/main.rs 244-262) turns it into the name the dispatchers match. *)

MaxEntries == 2

AtomNs == "http://www.w3.org/2005/Atom"
ItunesNs == "http://www.itunes.com/dtds/podcast-1.0.dtd"
PodcastNs == "https://podcastindex.org/namespace/1.0"
PodcastNsHttp == "http://podcastindex.org/namespace/1.0"

\* format!("{}:{}", prefix, local_name) over the names of the documents
Qualified ==
    { <<"atom", "feed", "atom:feed">>, <<"atom", "entry", "atom:entry">>,
      <<"atom", "link", "atom:link">>, <<"atom", "title", "atom:title">>,
      <<"itunes", "feed", "itunes:feed">>, <<"itunes", "entry", "itunes:entry">>,
      <<"itunes", "link", "itunes:link">>, <<"itunes", "title", "itunes:title">>,
      <<"itunes", "author", "itunes:author">>, <<"itunes", "summary", "itunes:summary">>,
      <<"content", "encoded", "content:encoded">>,
      <<"itunes", "duration", "itunes:duration">>,
      <<"itunes", "category", "itunes:category">>,
      <<"podcast", "feed", "podcast:feed">>, <<"podcast", "entry", "podcast:entry">>,
      <<"podcast", "link", "podcast:link">>, <<"podcast", "title", "podcast:title">>,
      <<"podcast", "funding", "podcast:funding">>,
      <<"podcast", "person", "podcast:person">> }

Format(prefix, local_name) ==
    (CHOOSE q \in Qualified : q[1] = prefix /\ q[2] = local_name)[3]

get_prefixed_name(name) ==
    IF name.prefix = Some("itunes") \/ name.namespace = Some(ItunesNs)
    THEN Format("itunes", name.local_name)
    ELSE IF \/ name.prefix = Some("podcast")
            \/ name.namespace = Some(PodcastNs)
            \/ name.namespace = Some(PodcastNsHttp)
    THEN Format("podcast", name.local_name)
    ELSE IF name.prefix # None THEN Format(name.prefix[1], name.local_name)
    ELSE name.local_name

\* one turn of the loop: the handler of the event and the records it wrote
ParseEvent(s, e, fid) ==
    CASE e.kind = "start" -> Ret(on_start_element(get_prefixed_name(e.name), e.attrs, s), <<>>)
      [] e.kind = "text" -> Ret(on_characters(e.data, s), <<>>)
      [] OTHER -> on_end_element(get_prefixed_name(e.name), fid, s)

\* the loop over a sequence of tokenizer events: those of its first half,
\* then those of its second
RECURSIVE ParseEvents(_, _, _, _)
ParseEvents(s, out, events, fid) ==
    IF events = <<>> THEN Ret(s, out)
    ELSE IF Tail(events) = <<>>
    THEN LET ret == ParseEvent(s, Head(events), fid) IN Ret(ret.st, out \o ret.out)
    ELSE LET half == Len(events) \div 2
             ret == ParseEvents(s, out, SubSeq(events, 1, half), fid)
         IN  IF ret.out = <<>>
             THEN ParseEvents(ret.st, <<>>, SubSeq(events, half + 1, Len(events)), fid)
             ELSE ParseEvents(ret.st, ret.out, SubSeq(events, half + 1, Len(events)), fid)

\* how a document declares the Atom namespace: as the default namespace or
\* bound to the prefix atom
AtomStyles == {"default", "prefixed"}

AtomName(style, local_name) ==
    [prefix |-> IF style = "default" THEN None ELSE Some("atom"),
     namespace |-> Some(AtomNs),
     local_name |-> local_name]

HrefSite == Https \o <<"s">>
HrefHub == Https \o <<"h">>
HrefSelf == Https \o <<"f">>
HrefPage == Https \o <<"p">>

LinkAttrs(kind) ==
    CASE kind = "alternate" -> [rel |-> "alternate", href |-> HrefPage]
      [] kind = "hub" -> [rel |-> "hub", href |-> HrefHub]
      [] kind = "self" -> [rel |-> "self", href |-> HrefSelf]
      [] kind = "enclosure" -> AtomOf(SrcA)
      [] OTHER -> AtomOf(SrcBad)

\* the links of a feed element and of an entry element
FeedLinks == { <<>>, <<"alternate">>, <<"hub", "self">>, <<"alternate", "hub", "self">> }
EntryLinks == { <<"alternate">>, <<"enclosure">>, <<"alternate", "enclosure">>,
                <<"unfetchable">> }

StartOf(style, local_name, a) ==
    [kind |-> "start", name |-> AtomName(style, local_name), attrs |-> a]
EndOf(style, local_name) == [kind |-> "end", name |-> AtomName(style, local_name)]

RECURSIVE LinkEvents(_, _)
LinkEvents(style, links) ==
    IF links = <<>> THEN <<>>
    ELSE << StartOf(style, "link", LinkAttrs(Head(links))), EndOf(style, "link") >>
         \o LinkEvents(style, Tail(links))

RECURSIVE EntryEvents(_, _)
EntryEvents(style, entries) ==
    IF entries = <<>> THEN <<>>
    ELSE << StartOf(style, "entry", NoAttrs) >> \o LinkEvents(style, Head(entries))
         \o << EndOf(style, "entry") >> \o EntryEvents(style, Tail(entries))

DocEvents(doc) ==
    << StartOf(doc.style, "feed", NoAttrs) >> \o LinkEvents(doc.style, doc.links)
    \o EntryEvents(doc.style, doc.entries) \o << EndOf(doc.style, "feed") >>

AtomDocs ==
    [style : AtomStyles, links : FeedLinks,
     entries : UNION { [1..n -> EntryLinks] : n \in 0..MaxEntries }]

\* a whole document, root element to root element
ParseDocument(doc, events) ==
    /\ pc = "parsing"
    /\ stack = <<>>
    /\ nev > 0
    /\ \E ret \in {ParseEvents(state, <<>>, events, feed_id)} :
          /\ state' = ret.st
          /\ records' = records \o [i \in 1..Len(ret.out) |-> [rec |-> ret.out[i]]]
    /\ ghost' = [ghost EXCEPT !.doc = Some(doc)]
    /\ nev' = nev - 1
    /\ UNCHANGED <<feed_id, pc, stack, GLOBAL_COUNTER, tasks>>

AtomDocument(doc) == ParseDocument(doc, DocEvents(doc))

InitAtom == InitWith(1, {Some(7)})

NextAtom ==
    \/ nev > 0 /\ \E doc \in AtomDocs : AtomDocument(doc)
    \/ EndDocument

SpecAtom == InitAtom /\ [][NextAtom]_vars

RecordsOf(table) == SelectSeq(records, LAMBDA r : r.rec.table = table)

\* the document has one entry, and the entry has a link of relation enclosure
\* whose href is an https url
OneEnclosureEntry(doc) ==
    /\ Len(doc.entries) = 1
    /\ \E i \in 1..Len(doc.entries[1]) : doc.entries[1][i] = "enclosure"

\* C21: a document whose root is feed, with the Atom namespace declared as
\* the default namespace, and whose one entry has a link of relation
\* enclosure with an https url, yields exactly one newsfeeds record and
\* exactly one nfitems record, the latter with the url of that link.
C21_DefaultNamespaceAtom ==
    \A d \in {ghost.doc} :
        (d # None /\ d[1].style = "default" /\ OneEnclosureEntry(d[1]))
        => /\ Len(RecordsOf("newsfeeds")) = 1
           /\ Len(RecordsOf("nfitems")) = 1
           /\ RecordsOf("nfitems")[1].rec.enclosure_url = SrcA.url

\* the same document with the namespace bound to the prefix atom yields the
\* two records
C21_PrefixedAtom ==
    \A d \in {ghost.doc} :
        (d # None /\ d[1].style = "prefixed" /\ OneEnclosureEntry(d[1]))
        => /\ Len(RecordsOf("newsfeeds")) = 1
           /\ Len(RecordsOf("nfitems")) = 1
           /\ RecordsOf("nfitems")[1].rec.enclosure_url = SrcA.url


----------------------------------------------------------------------------
(* Channel elements that occur more than once.                             *)

MaxFields == 3

PlainName(local_name) == [prefix |-> None, namespace |-> None, local_name |-> local_name]
ItunesName(local_name) ==
    [prefix |-> Some("itunes"), namespace |-> Some(ItunesNs), local_name |-> local_name]

\* the channel elements of the documents, each with its text
FieldNames == {PlainName("link"), ItunesName("author")}
FieldTexts == { <<"a">>, <<"b">> }
Fields == [name : FieldNames, text : FieldTexts]

RECURSIVE FieldEvents(_)
FieldEvents(fields) ==
    IF fields = <<>> THEN <<>>
    ELSE << [kind |-> "start", name |-> Head(fields).name, attrs |-> NoAttrs],
            [kind |-> "text", data |-> Head(fields).text],
            [kind |-> "end", name |-> Head(fields).name] >>
         \o FieldEvents(Tail(fields))

\* a channel element whose content is the fields
ChannelEvents(fields) ==
    << [kind |-> "start", name |-> PlainName("channel"), attrs |-> NoAttrs] >>
    \o FieldEvents(fields)
    \o << [kind |-> "end", name |-> PlainName("channel")] >>

ChannelDocs == UNION { [1..n -> Fields] : n \in 0..MaxFields }

ChannelDocument(fields) == ParseDocument(fields, ChannelEvents(fields))

InitDuplicate == InitWith(1, {Some(7)})

NextDuplicate ==
    \/ nev > 0 /\ \E fields \in ChannelDocs : ChannelDocument(fields)
    \/ EndDocument

SpecDuplicate == InitDuplicate /\ [][NextDuplicate]_vars

\* the texts of the occurrences of an element, in document order
Occurrences(fields, name) ==
    LET hits == SelectSeq(fields, LAMBDA f : f.name = name)
    IN  [i \in 1..Len(hits) |-> hits[i].text]

\* the column of the newsfeeds record is the text of the first occurrence
FirstOnly(fields, name, column) ==
    Len(Occurrences(fields, name)) > 1
    => /\ Len(RecordsOf("newsfeeds")) = 1
       /\ RecordsOf("newsfeeds")[1].rec[column] = Occurrences(fields, name)[1]

\* C22: when a channel has more than one link or more than one
\* itunes:author, the newsfeeds record carries the text of the first
\* occurrence of that element only.
C22_FirstOccurrenceOnly ==
    \A d \in {ghost.doc} :
        d # None => /\ FirstOnly(d[1], PlainName("link"), "url")
                    /\ FirstOnly(d[1], ItunesName("author"), "itunes_author")

\* the link of a channel with more than one link is the first one
C22_FirstLinkOnly ==
    \A d \in {ghost.doc} : d # None => FirstOnly(d[1], PlainName("link"), "url")

\* no text of an itunes:author of the channel reaches the newsfeeds record
C22_NoAuthor ==
    \A i \in 1..Len(records) :
        records[i].rec.table = "newsfeeds" => records[i].rec.itunes_author = EMPTY


----------------------------------------------------------------------------
(* Funding of a channel.                                                   *)

MaxParts == 2

PodcastName(local_name) ==
    [prefix |-> Some("podcast"), namespace |-> Some(PodcastNs), local_name |-> local_name]

\* an element with its attributes and its text; no text event for no text
ElementEvents(name, a, text) ==
    << [kind |-> "start", name |-> name, attrs |-> a] >>
    \o (IF text = EMPTY THEN <<>> ELSE << [kind |-> "text", data |-> text] >>)
    \o << [kind |-> "end", name |-> name] >>

FundingUrl == Https \o <<"p">>
FundingAttrs == { NoAttrs, [url |-> EMPTY], [url |-> FundingUrl] }
FundingTexts == { EMPTY, <<"S", "u", "p">> }

\* the parts of a channel: a funding element, or an item that holds one
FundingParts ==
    [where : {"channel", "item"}, attrs : FundingAttrs, text : FundingTexts]

PartEvents(part) ==
    IF part.where = "channel"
    THEN ElementEvents(PodcastName("funding"), part.attrs, part.text)
    ELSE << [kind |-> "start", name |-> PlainName("item"), attrs |-> NoAttrs] >>
         \o ElementEvents(PodcastName("funding"), part.attrs, part.text)
         \o << [kind |-> "end", name |-> PlainName("item")] >>

RECURSIVE PartsEvents(_)
PartsEvents(parts) ==
    IF parts = <<>> THEN <<>> ELSE PartEvents(Head(parts)) \o PartsEvents(Tail(parts))

FundingEvents(parts) ==
    << [kind |-> "start", name |-> PlainName("channel"), attrs |-> NoAttrs] >>
    \o PartsEvents(parts)
    \o << [kind |-> "end", name |-> PlainName("channel")] >>

FundingDocs == UNION { [1..n -> FundingParts] : n \in 0..MaxParts }

FundingDocument(parts) == ParseDocument(parts, FundingEvents(parts))

InitFunding == InitWith(1, {Some(7)})

NextFunding ==
    \/ nev > 0 /\ \E parts \in FundingDocs : FundingDocument(parts)
    \/ EndDocument

SpecFunding == InitFunding /\ [][NextFunding]_vars

\* the funding elements that are direct content of the channel and have a
\* url that is not empty
ChannelFunding(parts) ==
    SelectSeq(parts, LAMBDA q : q.where = "channel" /\ AttrStr(q.attrs, "url") # EMPTY)

\* C23: a channel with one podcast:funding element as direct content whose
\* url is not empty yields exactly one nffunding record, with that url and
\* the text of the element as message; a channel without such an element
\* yields no nffunding record.
C23_ChannelFunding ==
    \A d \in {ghost.doc} :
        d # None =>
            /\ Len(ChannelFunding(d[1])) = 1
               => /\ Len(RecordsOf("nffunding")) = 1
                  /\ RecordsOf("nffunding")[1].rec.url = FundingUrl
                  /\ RecordsOf("nffunding")[1].rec.message = ChannelFunding(d[1])[1].text
            /\ Len(ChannelFunding(d[1])) = 0 => Len(RecordsOf("nffunding")) = 0

\* no document yields an nffunding record
C23_NoFundingRecord == Len(RecordsOf("nffunding")) = 0


----------------------------------------------------------------------------
(* The description of an item.                                             *)

MaxDescribed == 2

ContentNs == "http://purl.org/rss/1.0/modules/content/"

\* the four sources of a description, in the order of their priority
DescriptionSources ==
    << [name |-> PlainName("content"), text |-> <<"c">>],
       [name |-> ItunesName("summary"), text |-> <<"s">>],
       [name |-> [prefix |-> Some("content"), namespace |-> Some(ContentNs),
                  local_name |-> "encoded"], text |-> <<"e">>],
       [name |-> PlainName("description"), text |-> <<"d", SP>>] >>

\* an item: for each source, the text of its element (None: no element)
Described ==
    { [k \in 1..4 |-> IF k \in present THEN Some(DescriptionSources[k].text) ELSE None] :
        present \in SUBSET (1..4) }
    \cup { << Some(<<SP>>), None, None, d >> : d \in {None, Some(<<"d", SP>>)} }

\* the items before the last one of a document
Leading == { <<None, None, None, None>>, <<Some(<<"c">>), None, None, None>>,
             <<None, None, None, Some(<<"d", SP>>)>> }

RECURSIVE SourceEvents(_, _)
SourceEvents(item, k) ==
    IF k > 4 THEN <<>>
    ELSE (IF item[k] = None THEN <<>>
          ELSE ElementEvents(DescriptionSources[k].name, NoAttrs, item[k][1]))
         \o SourceEvents(item, k + 1)

\* an item with its sources and an enclosure
DescribedEvents(item) ==
    << [kind |-> "start", name |-> PlainName("item"), attrs |-> NoAttrs] >>
    \o SourceEvents(item, 1)
    \o ElementEvents(AtomName("prefixed", "link"), AtomOf(SrcA), EMPTY)
    \o << [kind |-> "end", name |-> PlainName("item")] >>

RECURSIVE ItemsEvents(_)
ItemsEvents(items) ==
    IF items = <<>> THEN <<>> ELSE DescribedEvents(Head(items)) \o ItemsEvents(Tail(items))

DescribedChannel(items) ==
    << [kind |-> "start", name |-> PlainName("channel"), attrs |-> NoAttrs] >>
    \o ItemsEvents(items)
    \o << [kind |-> "end", name |-> PlainName("channel")] >>

DescribedDocs ==
    UNION { { lead \o <<last>> : lead \in [1..n -> Leading], last \in Described } :
            n \in 0..(MaxDescribed - 1) }

DescribedDocument(items) == ParseDocument(items, DescribedChannel(items))

InitDescription == InitWith(1, {Some(7)})

NextDescription ==
    \/ nev > 0 /\ \E items \in DescribedDocs : DescribedDocument(items)
    \/ EndDocument

SpecDescription == InitDescription /\ [][NextDescription]_vars

\* the first source of the item that is not empty, trimmed; the empty string
\* when the item has none
RECURSIVE FirstSource(_, _)
FirstSource(item, k) ==
    IF k > 4 THEN EMPTY
    ELSE IF item[k] # None /\ item[k][1] # EMPTY THEN Trim(item[k][1])
    ELSE FirstSource(item, k + 1)

\* C24: the description of the record of an item is the first of its
\* content, itunes:summary, content:encoded and description that is not
\* empty, trimmed, and the empty string when the item has none of the four.
C24_DescriptionPrecedence ==
    \A d \in {ghost.doc} :
        d # None =>
            /\ Len(RecordsOf("nfitems")) = Len(d[1])
            /\ \A k \in 1..Len(d[1]) :
                  RecordsOf("nfitems")[k].rec.description = FirstSource(d[1][k], 1)

\* the description of the first item of a channel is as C24 says, and so is
\* that of every item when no item before it has a content element
C24_BeforeAnyContent ==
    \A d \in {ghost.doc} :
        d # None =>
            \A k \in 1..Len(d[1]) :
                (\A j \in 1..(k - 1) : d[1][j][1] = None)
                => RecordsOf("nfitems")[k].rec.description = FirstSource(d[1][k], 1)


----------------------------------------------------------------------------
(* Feeds processed concurrently.  process_feed (src/src/main.rs 311-324)   *)
(* runs process_feed_sync on a blocking thread for each feed; the threads  *)
(* share GLOBAL_COUNTER and nothing else.  A thread parses its document    *)
(* with a ParserState of its own and hands each record to write_record     *)
(* (src/src/outputs.rs 26-52), which takes a counter value with one atomic *)
(* fetch_add and then writes the file named after it.                      *)

MaxTasks == 2

\* the documents of the feeds: a blank payload, a channel without items and
\* a channel with one item
Payloads == {"blank", "channel", "item"}

\* main.rs 189-203: the record of a payload that is empty or all white space
BlankRecord(fid) ==
    [table |-> "newsfeeds", feed_id |-> FeedIdJson(fid), title |-> EMPTY,
     link |-> EMPTY, description |-> EMPTY]

\* the records process_feed_sync hands to the sink, in emission order
Emitted(payload, fid) ==
    CASE payload = "blank" -> << BlankRecord(fid) >>
      [] payload = "channel" ->
            ParseEvents(ParserStateDefault, <<>>, DescribedChannel(<<>>), fid).out
      [] OTHER ->
            ParseEvents(ParserStateDefault, <<>>,
                        DescribedChannel(<< <<None, None, None, None>> >>), fid).out

\* mutation of fetch_add: the incremented value is not stored
fetch_add_lost(counter) == counter

\* AtomicUsize::fetch_add(1): the value stored by the one atomic step that
\* also returns the previous value
fetch_add(counter) == counter + 1

\* tokio::task::spawn_blocking: the thread of a feed starts
SpawnBlocking(t, payload) ==
    /\ tasks[t].pc = "new"
    /\ tasks' = [tasks EXCEPT ![t] = [pc |-> "running", feed_id |-> Some(t),
                                      todo |-> Emitted(payload, Some(t)),
                                      counter_val |-> None]]
    /\ UNCHANGED <<state, records, feed_id, pc, stack, nev, ghost, GLOBAL_COUNTER>>

\* write_record, outputs.rs 34 (and main.rs 209): counter_val is the previous
\* value of the counter plus one
FetchAdd(t) ==
    /\ tasks[t].pc = "running"
    /\ tasks[t].todo # <<>>
    /\ tasks[t].counter_val = None
    /\ GLOBAL_COUNTER' = fetch_add(GLOBAL_COUNTER)
    /\ tasks' = [tasks EXCEPT ![t].counter_val = Some(GLOBAL_COUNTER + 1)]
    /\ UNCHANGED <<state, records, feed_id, pc, stack, nev, ghost>>

\* write_record, outputs.rs 35-51: the file named after counter_val is written
WriteFile(t) ==
    /\ tasks[t].pc = "running"
    /\ tasks[t].counter_val # None
    /\ records' = Append(records, [rec |-> Head(tasks[t].todo),
                                   counter_val |-> tasks[t].counter_val[1],
                                   task |-> t])
    /\ tasks' = [tasks EXCEPT ![t].todo = Tail(@), ![t].counter_val = None]
    /\ UNCHANGED <<state, feed_id, pc, stack, nev, ghost, GLOBAL_COUNTER>>

\* process_feed_sync returns
Return(t) ==
    /\ tasks[t].pc = "running"
    /\ tasks[t].todo = <<>>
    /\ tasks' = [tasks EXCEPT ![t].pc = "done"]
    /\ UNCHANGED <<state, records, feed_id, pc, stack, nev, ghost, GLOBAL_COUNTER>>

InitCounter ==
    /\ state = ParserStateDefault
    /\ records = <<>>
    /\ feed_id = None
    /\ pc = "parsing"
    /\ stack = <<>>
    /\ nev = 0
    /\ ghost = GhostInit
    /\ GLOBAL_COUNTER = 0
    /\ tasks = [t \in 1..MaxTasks |->
                   [pc |-> "new", feed_id |-> None, todo |-> <<>>, counter_val |-> None]]

NextCounter ==
    \/ \E t \in 1..MaxTasks, payload \in Payloads : SpawnBlocking(t, payload)
    \/ \E t \in 1..MaxTasks : FetchAdd(t)
    \/ \E t \in 1..MaxTasks : WriteFile(t)
    \/ \E t \in 1..MaxTasks : Return(t)

SpecCounter == InitCounter /\ [][NextCounter]_vars

\* C25: whatever the interleaving of the feeds, no two files written have
\* the same counter value, and the files of one feed have strictly
\* increasing counter values in the order in which the feed emitted them.
C25_DistinctAndIncreasing ==
    \A i, j \in 1..Len(records) :
        i < j => /\ records[i].counter_val # records[j].counter_val
                 /\ records[i].task = records[j].task
                    => records[i].counter_val < records[j].counter_val

\* two feeds have interleaved: a file of one feed was written between two
\* files of the other, and a file was written before a file of the other
\* feed that has a lower counter value
C25_Witness ==
    /\ \E i, j, k \in 1..Len(records) :
          /\ i < j /\ j < k
          /\ records[i].task = records[k].task
          /\ records[i].task # records[j].task
    /\ \E i, j \in 1..Len(records) :
          i < j /\ records[i].counter_val > records[j].counter_val


----------------------------------------------------------------------------
(* The metrics of a channel: item_count, the pubdate list, the newest and  *)
(* the oldest date and the running item hash.                              *)

MaxEventsMetrics == 10

PubDateTexts == { <<"5">>, <<"3">> }
MetricLinks == { AtomOf(SrcA), AtomOf(SrcBad) }

InitMetrics == InitWith(MaxEventsMetrics, {Some(7)})

\* an item has at most one link, one pubDate with one text and one soundbite
NextMetrics ==
    \/ StartChannel("channel")
    \/ StartItem("item")
    \/ /\ Top \in ItemNames /\ "atom:link" \notin ghost.kids
       /\ \E a \in MetricLinks : StartAtomLink(a)
    \/ Top \in ItemNames /\ "pubDate" \notin ghost.kids /\ StartPubDate
    \/ /\ Top = "pubDate" /\ state.pub_date = EMPTY
       /\ \E data \in PubDateTexts : Characters(data)
    \/ EndElement
    \/ EndDocument

SpecMetrics == InitMetrics /\ [][NextMetrics]_vars

MaxEventsDiscard == 7

InitDiscard == InitWith(MaxEventsDiscard, {Some(7)})

\* as NextMetrics, and an item has at most one soundbite
NextDiscard ==
    \/ StartChannel("channel")
    \/ StartItem("item")
    \/ /\ Top \in ItemNames /\ "atom:link" \notin ghost.kids
       /\ \E a \in MetricLinks : StartAtomLink(a)
    \/ Top \in ItemNames /\ "pubDate" \notin ghost.kids /\ StartPubDate
    \/ /\ Top \in ItemNames /\ "podcast:soundbite" \notin ghost.kids
       /\ \E a \in SoundbiteAttrs : StartSoundbite(a)
    \/ /\ Top = "pubDate" /\ state.pub_date = EMPTY
       /\ \E data \in PubDateTexts : Characters(data)
    \/ EndElement
    \/ EndDocument

SpecDiscard == InitDiscard /\ [][NextDiscard]_vars

EmittedItems ==
    Cardinality({i \in 1..Len(records) : /\ records[i].rec.table = "nfitems"
                                         /\ records[i].epoch = ghost.epoch})

RECURSIVE MaxOf(_)
MaxOf(list) ==
    IF Len(list) = 1 THEN list[1]
    ELSE IF list[1] >= MaxOf(Tail(list)) THEN list[1] ELSE MaxOf(Tail(list))

RECURSIVE MinOf(_)
MinOf(list) ==
    IF Len(list) = 1 THEN list[1] ELSE Min(list[1], MinOf(Tail(list)))

\* C27: inside a channel, item_count is the number of nfitems records
\* emitted since the channel started and the length of the pubdate list;
\* the newest and the oldest date are both absent exactly when item_count is
\* 0, and otherwise are the maximum and the minimum of the pubdate list; an
\* item start leaves the counter as it is.
C27_MetricsAgree ==
    Open(ChannelNames) =>
        /\ state.item_count = EmittedItems
        /\ state.item_count = Len(state.item_pubdates)
        /\ (state.newest_item_pubdate = None) <=> (state.item_count = 0)
        /\ (state.oldest_item_pubdate = None) <=> (state.item_count = 0)
        /\ state.item_count > 0 =>
              /\ state.newest_item_pubdate = Some(MaxOf(state.item_pubdates))
              /\ state.oldest_item_pubdate = Some(MinOf(state.item_pubdates))
              /\ state.oldest_item_pubdate[1] <= state.newest_item_pubdate[1]

\* a channel has emitted two items, the later one with the older date, and
\* a third item has started
C27_Witness ==
    /\ Open(ChannelNames)
    /\ Top \in ItemNames
    /\ state.item_count = 2
    /\ state.item_pubdates = <<5, 3>>


----------------------------------------------------------------------------
(* The link of an item.                                                    *)

MaxEventsLink == 5

LinkHrefs == { NoAttrs, [href |-> Https \o <<"b">>] }
LinkTexts == { Https \o <<"t">> }
AlternateLinks == { [rel |-> "alternate", href |-> HrefPage] }

InitLink == InitWith(MaxEventsLink, {Some(7)})

NextLink ==
    \/ StartItem("item")
    \/ Top \in ItemNames /\ \E a \in LinkHrefs : StartLink(a)
    \/ Top \in ItemNames /\ \E a \in AlternateLinks \cup {AtomOf(SrcA)} : StartAtomLink(a)
    \/ Top = "link" /\ \E data \in LinkTexts : Characters(data)
    \/ EndElement
    \/ EndDocument

SpecLink == InitLink /\ [][NextLink]_vars

\* the step is an event inside one item
InsideItem == Open(ItemNames) /\ ghost'.items = ghost.items /\ state'.in_item

\* C28: once the link of an item is not empty, no later event inside the
\* same item changes it.
C28_LinkIsSticky ==
    [][ (InsideItem /\ state.link # EMPTY) => state'.link = state.link ]_vars

\* the start of a link element
LinkStart == Len(stack') > Len(stack) /\ stack'[Len(stack')] = "link"

\* every event inside an item but the start of a link element leaves a link
\* that is not empty as it is
C28_StickyButLinkStart ==
    [][ (InsideItem /\ state.link # EMPTY /\ ~LinkStart) => state'.link = state.link ]_vars


----------------------------------------------------------------------------
(* Items of one channel, one after the other.                              *)

MaxIsolated == 2

\* the text elements of an item
ItemFields ==
    << [name |-> PlainName("title"), text |-> <<"T">>],
       [name |-> PlainName("link"), text |-> Https \o <<"l">>],
       [name |-> PlainName("guid"), text |-> <<"g">>],
       [name |-> PlainName("pubDate"), text |-> <<"5">>],
       [name |-> ItunesName("duration"), text |-> <<"9">>],
       [name |-> PlainName("content"), text |-> <<"c">>],
       [name |-> PlainName("description"), text |-> <<"d">>] >>

NFields == Len(ItemFields)

\* the index of the content element
ContentField == CHOOSE k \in 1..NFields : ItemFields[k].name = PlainName("content")

\* an item is the set of the fields it has; the items before the last one
\* have every field, every field but the content, or none
FieldSets == SUBSET (1..NFields)
LeadingSets == { 1..NFields, (1..NFields) \ {ContentField}, {} }

RECURSIVE FieldSetEvents(_, _)
FieldSetEvents(fields, k) ==
    IF k > NFields THEN <<>>
    ELSE (IF k \in fields
          THEN ElementEvents(ItemFields[k].name, NoAttrs, ItemFields[k].text)
          ELSE <<>>)
         \o FieldSetEvents(fields, k + 1)

\* an item with its fields and an enclosure
IsolatedItem(fields) ==
    << [kind |-> "start", name |-> PlainName("item"), attrs |-> NoAttrs] >>
    \o FieldSetEvents(fields, 1)
    \o ElementEvents(AtomName("prefixed", "link"), AtomOf(SrcA), EMPTY)
    \o << [kind |-> "end", name |-> PlainName("item")] >>

RECURSIVE IsolatedItems(_)
IsolatedItems(items) ==
    IF items = <<>> THEN <<>> ELSE IsolatedItem(Head(items)) \o IsolatedItems(Tail(items))

IsolatedChannel(items) ==
    << [kind |-> "start", name |-> PlainName("channel"), attrs |-> NoAttrs] >>
    \o IsolatedItems(items)
    \o << [kind |-> "end", name |-> PlainName("channel")] >>

IsolatedDocs ==
    UNION { { lead \o <<last>> : lead \in [1..n -> LeadingSets], last \in FieldSets } :
            n \in 0..(MaxIsolated - 1) }

IsolatedDocument(items) == ParseDocument(items, IsolatedChannel(items))

InitIsolation == InitWith(1, {Some(7)})

NextIsolation ==
    \/ nev > 0 /\ \E items \in IsolatedDocs : IsolatedDocument(items)
    \/ EndDocument

SpecIsolation == InitIsolation /\ [][NextIsolation]_vars

\* the nfitems record of the item when it is the only item of its channel
Alone(fields) ==
    ParseEvents(ParserStateDefault, <<>>, IsolatedChannel(<<fields>>), feed_id).out[1]

\* C29: the nfitems record of an item is determined by the events between
\* the start and the end of that item: it is the record the item yields when
\* it is the only item of its channel.
C29_ItemsIsolated ==
    \A d \in {ghost.doc} :
        d # None =>
            \A k \in 1..Len(d[1]) : RecordsOf("nfitems")[k].rec = Alone(d[1][k])

\* every column but the description is that of the item alone, and so is the
\* description of an item that has a content element or that comes after no
\* content element
C29_IsolatedButContent ==
    \A d \in {ghost.doc} :
        d # None =>
            \A k \in 1..Len(d[1]) :
                LET rec == RecordsOf("nfitems")[k].rec
                    alone == Alone(d[1][k])
                IN  /\ \A c \in DOMAIN rec \ {"description"} : rec[c] = alone[c]
                    /\ (\A j \in 1..(k - 1) : ContentField \notin d[1][j])
                       => rec = alone


----------------------------------------------------------------------------
(* The fields of a channel and the events inside its items.                *)

MaxItemParts == 2

Arts == <<"A", "r", "t", "s">>
HrefItem == Https \o <<"i">>
HrefChannel == Https \o <<"c">>

\* the elements of the documents, each with its attributes and its text
Part(kind) ==
    CASE kind = "link" -> [name |-> PlainName("link"), attrs |-> NoAttrs, text |-> HrefItem]
      [] kind = "href" ->
            [name |-> PlainName("link"), attrs |-> [href |-> HrefItem], text |-> EMPTY]
      [] kind = "alternate" ->
            [name |-> AtomName("prefixed", "link"), attrs |-> LinkAttrs("alternate"),
             text |-> EMPTY]
      [] kind = "hub" ->
            [name |-> AtomName("prefixed", "link"), attrs |-> LinkAttrs("hub"), text |-> EMPTY]
      [] kind = "self" ->
            [name |-> AtomName("prefixed", "link"), attrs |-> LinkAttrs("self"), text |-> EMPTY]
      [] kind = "category" ->
            [name |-> ItunesName("category"), attrs |-> [text |-> Arts], text |-> EMPTY]
      [] kind = "description" ->
            [name |-> PlainName("description"), attrs |-> NoAttrs, text |-> <<"d">>]
      [] kind = "funding" ->
            [name |-> PodcastName("funding"), attrs |-> [url |-> FundingUrl],
             text |-> <<"S">>]
      [] OTHER -> [name |-> PlainName("link"), attrs |-> NoAttrs, text |-> HrefChannel]

ItemKinds == {"link", "href", "alternate", "hub", "self", "category", "description",
              "funding"}

\* what a channel has of its own, before or after its item
OwnKinds == { <<>>, <<"own link">>, <<"hub", "category", "description">> }

RECURSIVE KindsEvents(_)
KindsEvents(kinds) ==
    IF kinds = <<>> THEN <<>>
    ELSE LET q == Part(Head(kinds))
         IN  ElementEvents(q.name, q.attrs, q.text) \o KindsEvents(Tail(kinds))

\* a channel with one item: the elements of the item, the channel's own
\* elements and whether these come before the item
FrameEvents(doc, kinds) ==
    << [kind |-> "start", name |-> PlainName("channel"), attrs |-> NoAttrs] >>
    \o (IF doc.first THEN KindsEvents(doc.own) ELSE <<>>)
    \o << [kind |-> "start", name |-> PlainName("item"), attrs |-> NoAttrs] >>
    \o KindsEvents(kinds)
    \o << [kind |-> "end", name |-> PlainName("item")] >>
    \o (IF doc.first THEN <<>> ELSE KindsEvents(doc.own))
    \o << [kind |-> "end", name |-> PlainName("channel")] >>

FrameDocs ==
    [own : OwnKinds, first : BOOLEAN,
     item : UNION { [1..n -> ItemKinds] : n \in 0..MaxItemParts }]

FrameDocument(doc) == ParseDocument(doc, FrameEvents(doc, doc.item))

InitFrame == InitWith(1, {Some(7)})

NextFrame ==
    \/ nev > 0 /\ \E doc \in FrameDocs : FrameDocument(doc)
    \/ EndDocument

SpecFrame == InitFrame /\ [][NextFrame]_vars

\* the descriptive part of what a channel emits at its end
DescriptiveColumns ==
    {"table", "title", "url", "content", "language", "generator", "itunes_author",
     "itunes_owner_name", "itunes_owner_email"}

Descriptive(out) ==
    [i \in 1..Len(out) |->
        IF out[i].table = "newsfeeds" THEN [c \in DescriptiveColumns |-> out[i][c]]
        ELSE out[i]]

\* the records of the document when its item is empty
WithEmptyItem(doc) ==
    ParseEvents(ParserStateDefault, <<>>, FrameEvents(doc, <<>>), feed_id).out

\* C30: the descriptive fields a channel emits at its end (title, link,
\* description, language, generator, author, owner, funding, categories and
\* pubsub urls) are those it emits when its item is empty.
C30_ItemLeavesChannel ==
    \A d \in {ghost.doc} :
        d # None =>
            Descriptive([i \in 1..Len(records) |-> records[i].rec])
                = Descriptive(WithEmptyItem(d[1]))

\* the item has the text of a link element after its link is set
LinkTextAfterLink(kinds) ==
    \E i, j \in 1..Len(kinds) :
        i < j /\ kinds[i] \in {"link", "href", "alternate"} /\ kinds[j] = "link"

\* the fields are those of the empty item unless the item has the text of a
\* link element after its link is set
C30_ButSecondLinkText ==
    \A d \in {ghost.doc} :
        (d # None /\ ~LinkTextAfterLink(d[1].item)) =>
            Descriptive([i \in 1..Len(records) |-> records[i].rec])
                = Descriptive(WithEmptyItem(d[1]))


----------------------------------------------------------------------------
(* Value blocks of items and the channel's pending block                   *)

\* the innermost open element ends in this step
Closes(el) == Top = el /\ stack' = SubSeq(stack, 1, Len(stack) - 1)

\* C31: a podcast:value element located inside an item never becomes, and never
\* replaces, the channel's pending value block, whether the item has a valid
\* enclosure, gets one later, or has none
C31_ItemValueNotChannel ==
    [][Closes("podcast:value") /\ Open(ItemNames) =>
          /\ state'.channel_value_pending = state.channel_value_pending
          /\ state'.channel_value_has_lightning = state.channel_value_has_lightning]_vars

\* a podcast:value of an item that closes after the valid enclosure of the item
\* leaves the channel's pending block alone
C31_NotChannelAfterEnclosure ==
    [][Closes("podcast:value") /\ Open(ItemNames) /\ state.item_has_valid_enclosure =>
          /\ state'.channel_value_pending = state.channel_value_pending
          /\ state'.channel_value_has_lightning = state.channel_value_has_lightning]_vars


----------------------------------------------------------------------------
(* Sub-entities of an item and the time of their end event                 *)

\* the table an item sub-entity element is emitted to
TableOf(el) ==
    CASE el = "podcast:transcript" -> "nfitem_transcripts"
      [] el = "podcast:chapters" -> "nfitem_chapters"
      [] el = "podcast:soundbite" -> "nfitem_soundbites"
      [] el = "podcast:person" -> "nfitem_persons"

\* the required fields of a sub-entity element, as written, are non-empty once
\* trimmed: the url of a transcript or of chapters, the startTime and the
\* duration of a soundbite, the name of a person
Required(el, entity) ==
    CASE el \in {"podcast:transcript", "podcast:chapters"} ->
            Trim(AttrStr(entity.attrs, "url")) # EMPTY
      [] el = "podcast:soundbite" ->
            /\ Trim(AttrStr(entity.attrs, "startTime")) # EMPTY
            /\ Trim(AttrStr(entity.attrs, "duration")) # EMPTY
      [] el = "podcast:person" -> Trim(entity.text) # EMPTY

\* the engine holds a valid enclosure of the open item
Captured == Open(ItemNames) /\ is_http_url(state.enclosure_url)

IsSubEntityRecord(r) == r.rec.table \in {TableOf(el) : el \in SubEntityNames}

\* the records emitted in this step
NewRecords == SubSeq(records', Len(records) + 1, Len(records'))

----------------------------------------------------------------------------
(* An enclosure source without an http(s) URL before a valid one           *)

\* the nfitems record among the records emitted in this step carries the
\* enclosure source src
EmitsItemWith(src) ==
    \E k \in 1..Len(NewRecords) :
        /\ NewRecords[k].rec.table = "nfitems"
        /\ <<NewRecords[k].rec.enclosure_url, NewRecords[k].rec.enclosure_length,
             NewRecords[k].rec.enclosure_type>> = EmittedEnclosure(src)

EmitsItemFirst == EmitsItemWith(ghost.first[1])

\* C33: an item in which an <enclosure> or link rel="enclosure" whose URL is
\* not http(s):// is followed by a valid one is emitted, at its end event, with
\* the url, length and type of the first valid one
C33_InvalidThenValid ==
    [][(Closes(Top) /\ Top \in ItemNames /\ ghost.bad # {} /\ ghost.first # None)
          => EmitsItemFirst]_vars

\* C33 holds of an item whose first valid source is an <enclosure> element or
\* whose invalid sources before it are <enclosure> elements
C33_ButLinkAfterLink ==
    [][(Closes(Top) /\ Top \in ItemNames /\ ghost.bad # {} /\ ghost.first # None
            /\ (ghost.first_el = "enclosure" \/ "atom:link" \notin ghost.bad))
          => EmitsItemFirst]_vars


----------------------------------------------------------------------------
(* Unknown elements.  A document is one of a few base documents with       *)
(* elements of a name that has no handler inserted between its events.     *)

MaxInserted == 1

UnknownName == PlainName("unknown")
UnknownTexts == {EMPTY, <<"u">>, <<SP>>}

\* an element whose text reaches the loop as two text events, as it does
\* when another element stands inside the text
SplitTextEvents(name, a, before, after) ==
    << [kind |-> "start", name |-> name, attrs |-> a],
       [kind |-> "text", data |-> before],
       [kind |-> "text", data |-> after],
       [kind |-> "end", name |-> name] >>

PersonName == PodcastName("person")
EnclosureLinkEvents == ElementEvents(AtomName("prefixed", "link"), AtomOf(SrcA), EMPTY)

\* the base documents: a channel with a link; a channel with a link and an
\* item with an enclosure link and a person; a channel with hub and self
\* links and an item with a link and no enclosure; an Atom feed with an entry
\* that has an enclosure link and a link
UnknownBases ==
    << ElementEvents(PlainName("channel"), NoAttrs, EMPTY),
       << [kind |-> "start", name |-> PlainName("channel"), attrs |-> NoAttrs] >>
         \o SplitTextEvents(PlainName("link"), NoAttrs, HrefChannel, <<"x">>)
         \o << [kind |-> "end", name |-> PlainName("channel")] >>,
       << [kind |-> "start", name |-> PlainName("channel"), attrs |-> NoAttrs] >>
         \o ElementEvents(PlainName("link"), NoAttrs, HrefChannel)
         \o << [kind |-> "start", name |-> PlainName("item"), attrs |-> NoAttrs] >>
         \o EnclosureLinkEvents
         \o SplitTextEvents(PersonName, [role |-> <<"r">>], <<"n">>, <<"m">>)
         \o << [kind |-> "end", name |-> PlainName("item")],
               [kind |-> "end", name |-> PlainName("channel")] >>,
       << [kind |-> "start", name |-> PlainName("channel"), attrs |-> NoAttrs] >>
         \o KindsEvents(<<"hub", "self">>)
         \o << [kind |-> "start", name |-> PlainName("item"), attrs |-> NoAttrs] >>
         \o KindsEvents(<<"link">>)
         \o << [kind |-> "end", name |-> PlainName("item")],
               [kind |-> "end", name |-> PlainName("channel")] >>,
       << StartOf("prefixed", "feed", NoAttrs), StartOf("prefixed", "entry", NoAttrs) >>
         \o EnclosureLinkEvents
         \o ElementEvents(PlainName("link"), NoAttrs, HrefItem)
         \o << EndOf("prefixed", "entry"), EndOf("prefixed", "feed") >> >>

\* the events with an unknown element, and its text, after the first at of them
InsertUnknown(events, at, text) ==
    SubSeq(events, 1, Min(at, Len(events)))
    \o ElementEvents(UnknownName, NoAttrs, text)
    \o SubSeq(events, Min(at, Len(events)) + 1, Len(events))

RECURSIVE WithUnknowns(_, _)
WithUnknowns(events, inserted) ==
    IF inserted = <<>> THEN events
    ELSE WithUnknowns(InsertUnknown(events, Head(inserted).at, Head(inserted).text),
                      Tail(inserted))

\* where, counted in events of the document, and with which text
Insertions(events) == [at : 0..Len(events), text : UnknownTexts]

UnknownDocs ==
    UNION { [base : {b},
             inserted : UNION { [1..n -> Insertions(UnknownBases[b])] :
                                   n \in 0..MaxInserted }] : b \in DOMAIN UnknownBases }

UnknownDocument(doc) ==
    ParseDocument(doc, WithUnknowns(UnknownBases[doc.base], doc.inserted))

InitUnknown == InitWith(1, FeedIds)

NextUnknown ==
    \/ nev > 0 /\ \E doc \in UnknownDocs : UnknownDocument(doc)
    \/ EndDocument

SpecUnknown == InitUnknown /\ [][NextUnknown]_vars

\* the records of the base document
WithoutUnknowns(doc) ==
    ParseEvents(ParserStateDefault, <<>>, UnknownBases[doc.base], feed_id).out

\* C34: a document with an element of an unknown name (and its text) inserted
\* at any position, the inside of a known element's text included, yields
\* exactly the records of the document without it
C34_UnknownIsNoOp ==
    \A d \in {ghost.doc} :
        d # None => [i \in 1..Len(records) |-> records[i].rec] = WithoutUnknowns(d[1])

\* the position at lies inside an element that has no child elements
InsideLeaf(events, at) ==
    /\ at \in 1..(Len(events) - 1)
    /\ events[at].kind \in {"start", "text"}
    /\ events[at + 1].kind \in {"text", "end"}

RECURSIVE AllBetween(_, _)
AllBetween(events, inserted) ==
    \/ inserted = <<>>
    \/ /\ ~InsideLeaf(events, Head(inserted).at)
       /\ AllBetween(InsertUnknown(events, Head(inserted).at, Head(inserted).text),
                     Tail(inserted))

\* an unknown element inserted between elements, outside every element that
\* has no child elements, leaves the records as they are
C34_NoOpBetweenElements ==
    \A d \in {ghost.doc} :
        (d # None /\ AllBetween(UnknownBases[d[1].base], d[1].inserted)) =>
            [i \in 1..Len(records) |-> records[i].rec] = WithoutUnknowns(d[1])


----------------------------------------------------------------------------
(* Scope flags.  The tokenizer guarantees that elements are well nested    *)
(* and nothing more: any element may stand inside any other.               *)

MaxEventsScope == 3

ScopeElements ==
    {"channel", "item", "itunes:owner", "itunes:category", "podcast:funding",
     "podcast:alternateEnclosure", "podcast:value", "podcast:transcript",
     "podcast:chapters", "podcast:soundbite", "podcast:person"}

\* an element of the document, wherever it stands
StartAnywhere(el) == StartElement(el, NoAttrs)

InitScope == InitWith(MaxEventsScope, {None})

NextScope ==
    \/ nev > 0 /\ \E el \in ScopeElements : StartAnywhere(el)
    \/ Characters(<<"g">>)
    \/ EndElement
    \/ EndDocument

SpecScope == InitScope /\ [][NextScope]_vars

\* the flags of the sub-entity scopes that belong to an item
ItemScopeFlags(s) ==
    {s.in_podcast_soundbite, s.in_podcast_person, s.in_podcast_transcript,
     s.in_podcast_chapters, s.in_podcast_funding}

\* C35: in every reachable parser state in_podcast_soundbite,
\* in_podcast_person, in_podcast_transcript, in_podcast_chapters,
\* in_podcast_funding and in_podcast_alternate_enclosure each imply in_item;
\* in_channel_itunes_owner and in_standard_category imply in_channel;
\* in_podcast_value implies in_channel or in_item
C35_FlagsInsideScope ==
    /\ TRUE \in ItemScopeFlags(state) => state.in_item
    /\ state.in_podcast_alternate_enclosure => state.in_item
    /\ state.in_channel_itunes_owner => state.in_channel
    /\ state.in_standard_category => state.in_channel
    /\ state.in_podcast_value => state.in_channel \/ state.in_item

\* the flags that item.rs on_start and channel.rs on_start clear are set only
\* inside their scope: all of C35 but in_podcast_alternate_enclosure and
\* in_podcast_value
C35_ClearedFlagsInsideScope ==
    /\ TRUE \in ItemScopeFlags(state) => state.in_item
    /\ state.in_channel_itunes_owner => state.in_channel
    /\ state.in_standard_category => state.in_channel


----------------------------------------------------------------------------
(* The title of an item in its record and in the running item hash         *)

MaxEventsTitle == 6

InitTitle == InitWith(MaxEventsTitle, {Some(7)})

NextTitle ==
    \/ StartItem("item")
    \/ StartEnclosure(SrcA)
    \/ nev > 0 /\ \E el \in {"title", "itunes:title"} : StartField(el)
    \/ \E data \in Texts : Characters(data)
    \/ EndElement
    \/ EndDocument

SpecTitle == InitTitle /\ [][NextTitle]_vars

\* the running item hash after the tuple of the open item has been folded in
\* with title as its title
HashedWithTitle(title) ==
    LET s1 == type_fallback(guid_fallback(state))
    IN  Md5Consume(state.item_hash,
                   title \o Trim(s1.link) \o Trim(s1.enclosure_url) \o Trim(s1.enclosure_type)
                       \o Trim(s1.podcast_funding_url) \o Trim(s1.podcast_funding_text))

\* the title folded into the hash in this step is the trimmed title of the
\* nfitems record emitted in this step
HashedTitleIsEmitted ==
    \A k \in 1..Len(NewRecords) :
        NewRecords[k].rec.table = "nfitems" =>
            state'.item_hash = HashedWithTitle(Trim(NewRecords[k].rec.title))

\* C36: for every emitted item, the title folded into the running item hash is
\* the trimmed form of the title of the item's nfitems record, for every
\* combination of empty, whitespace-only and non-empty itunes:title and title
C36_HashedTitleIsEmittedTitle == [][HashedTitleIsEmitted]_vars

\* the itunes:title of the open item is empty or has a character that is not
\* whitespace
NotBlank(text) == text = EMPTY \/ Trim(text) # EMPTY

\* the two titles agree unless the itunes:title is whitespace only
C36_ButBlankItunesTitle == [][NotBlank(state.itunes_title) => HashedTitleIsEmitted]_vars


----------------------------------------------------------------------------
(* Child records and the record of their item, at the end of a document    *)

MaxEventsChild == 6

InitChild == InitWith(MaxEventsChild, {Some(7)})

NextChild ==
    \/ StartChannel("channel")
    \/ StartItem("item")
    \/ StartEnclosure(SrcA)
    \/ \E a \in ChildAttrs : StartTranscript(a)
    \/ \E a \in ChildAttrs : StartChapters(a)
    \/ \E a \in SoundbiteAttrs : StartSoundbite(a)
    \/ \E a \in ValueAttrs : StartValue(a)
    \/ \E a \in RecipientAttrs : StartValueRecipient(a)
    \/ EndElement
    \/ EndDocument

SpecChild == InitChild /\ [][NextChild]_vars

\* the nfitems records of the channel epoch e: the final item_count of it
FinalItemCount(e) ==
    Cardinality({m \in 1..Len(records) :
                    records[m].rec.table = "nfitems" /\ records[m].epoch = e})

----------------------------------------------------------------------------
(* The order of the records of a channel and of its items                  *)

MaxEventsOrder == 7

\* an itunes:category element of a channel, with its text attribute
StartCategory(a) ==
    /\ Top \in ChannelNames
    /\ StartElement("itunes:category", a)

InitOrder == InitWith(MaxEventsOrder, {Some(7)})

NextOrder ==
    \/ StartChannel("channel")
    \/ StartItem("item")
    \/ StartEnclosure(SrcA)
    \/ \E a \in ChildAttrs : StartTranscript(a)
    \/ \E a \in SoundbiteAttrs : StartSoundbite(a)
    \/ \E a \in ValueAttrs : StartValue(a)
    \/ \E a \in RecipientAttrs : StartValueRecipient(a)
    \/ StartAtomLink(LinkAttrs("hub"))
    \/ StartCategory([text |-> Arts])
    \/ EndElement
    \/ EndDocument

SpecOrder == InitOrder /\ [][NextOrder]_vars

\* the tables a channel writes at its end, in the stated order
ChannelTables == <<"newsfeeds", "nfguids", "pubsub", "nffunding", "nfcategories", "nfvalue">>

Rank(table) == CHOOSE k \in 1..Len(ChannelTables) : ChannelTables[k] = table

IsChannelTable(table) == \E k \in 1..Len(ChannelTables) : ChannelTables[k] = table

\* C38: the transcript, chapters, soundbite and person records of an item are
\* emitted at their own end events and before the item's nfitems record; the
\* item's nfitem_value record comes immediately after its nfitems record; the
\* records of a channel are emitted at its end event in the order newsfeeds,
\* nfguids, pubsub, nffunding, nfcategories, nfvalue, after every record of
\* the channel's items
C38_RecordOrder ==
    \A i \in 1..Len(records) :
        /\ IsSubEntityRecord(records[i]) =>
              /\ TableOf(records[i].at) = records[i].rec.table
              /\ \A j \in 1..Len(records) :
                    records[j].rec.table = "nfitems" /\ records[j].item = records[i].item
                        => i < j
        /\ records[i].rec.table = "nfitem_value" =>
              /\ i > 1
              /\ records[i - 1].rec.table = "nfitems"
              /\ records[i - 1].item = records[i].item
              /\ records[i].at \in ItemNames
        /\ IsChannelTable(records[i].rec.table) =>
              /\ records[i].at \in ChannelNames
              /\ \A j \in 1..Len(records) :
                    /\ (IsChannelTable(records[j].rec.table)
                            /\ records[j].epoch = records[i].epoch
                            /\ Rank(records[j].rec.table) < Rank(records[i].rec.table))
                        => j < i
                    /\ (records[j].rec.table \in ItemTables
                            /\ records[j].channel = records[i].channel)
                        => j < i

\* a channel has ended that wrote, in this order, the transcript and the record
\* of its item and its own newsfeeds, nfcategories and nfvalue records
C38_Witness ==
    /\ stack = <<>>
    /\ Len(records) = 5
    /\ records[1].rec.table = "nfitem_transcripts"
    /\ records[2].rec.table = "nfitems"
    /\ records[3].rec.table = "newsfeeds"
    /\ records[4].rec.table = "nfcategories"
    /\ records[5].rec.table = "nfvalue"


----------------------------------------------------------------------------
(* Duration arithmetic: itunes:duration texts whose components lie around  *)
(* the largest hours and minutes that fit and at the ends of i32           *)

MaxEventsSeconds == 4

\* 0, the largest hours whose seconds fit i32, i32::MAX and i32::MIN
SecondsComponents ==
    { <<"0">>,
      <<"5", "9", "6", "5", "2", "3">>,
      <<"2", "1", "4", "7", "4", "8", "3", "6", "4", "7">>,
      <<"-", "2", "1", "4", "7", "4", "8", "3", "6", "4", "8">> }

\* an integer, mm:ss and hh:mm:ss
SecondsTexts ==
    SecondsComponents
        \cup { m \o <<":">> \o s : m \in SecondsComponents, s \in SecondsComponents }
        \cup { h \o <<":">> \o m \o <<":">> \o s :
                 h \in SecondsComponents, m \in SecondsComponents, s \in SecondsComponents }

InitSeconds == InitWith(MaxEventsSeconds, {Some(7)})

NextSeconds ==
    \/ StartItem("item")
    \/ StartEnclosure(SrcA)
    \/ StartDuration
    \/ nev > 0 /\ \E data \in SecondsTexts : Characters(data)
    \/ EndElement
    \/ EndDocument

SpecSeconds == InitSeconds /\ [][NextSeconds]_vars

InClampRange(n) == -I32Max <= n /\ n <= I32Max

\* C39: parse_itunes_duration never overflows: whatever the duration text
\* of an item, integer, mm:ss or hh:mm:ss of components that parse as i32,
\* the parse does not panic, no operation of hours*3600 + minutes*60 + seconds
\* leaves the range of i32, and the itunes_duration of the record lies within
\* -2,147,483,647 .. 2,147,483,647
C39_NeverOverflows ==
    /\ pc # "panicked"
    /\ \A i \in 1..Len(records) :
          records[i].rec.table = "nfitems" /\ records[i].duration_text # None =>
              /\ ~parse_itunes_duration_overflows(Trim(records[i].duration_text[1]))
              /\ InClampRange(records[i].rec.itunes_duration)

\* what holds instead: a duration text that is itself an i32 is clamped, and
\* the parse of one whose arithmetic does not overflow does not panic
C39_IntegerTextClamped ==
    /\ \A i \in 1..Len(records) :
          /\ records[i].rec.table = "nfitems"
          /\ records[i].duration_text # None
          /\ ParseI32(Trim(records[i].duration_text[1])) # None
          => InClampRange(records[i].rec.itunes_duration)
    /\ pc = "panicked" => parse_itunes_duration_overflows(Trim(state.itunes_duration))

====
